---------------------------- MODULE Spec2Model ----------------------------
(***************************************************************************)
(* RSSOS: site classification (SiteDetector), rule-driven extraction       *)
(* (ContentParser) and their utilities.                                    *)
(*                                                                         *)
(* JavaScript strings are TLA+ strings; an absent attribute (undefined)    *)
(* and the empty string are both written "": every use the code makes of   *)
(* an attribute value is a truthiness test, which does not tell them apart.*)
(***************************************************************************)
EXTENDS Integers, Sequences, FiniteSets, TLC

VARIABLES
    dIn,        \* detectSiteType: the (html, url) of the last call
    dOut,       \* detectSiteType: how the last call ended, and siteInfo
    rIn,        \* resolveUrl: the (siteInfo.url, url) of the last call
    rOut,       \* resolveUrl: the value returned by the last call
    pInfo,      \* ContentParser: this.siteInfo
    pDoc,       \* parseContent: the html argument, [markup, nodes]
    clock,      \* the clock that new Date() and Date.now() read
    pPc,        \* parseContent: "idle", "awaitJson", "awaitArticle", "done"
    pWork,      \* parseMovableTypeBlog: articles, articlesToFetch and i
    net,        \* the network: the request in flight, the number of
                \* requests issued, the response that settled last
    pOut,       \* parseContent: the list the last finished call returned
    pPrev,      \* parseContent: the list the call before that returned
    pRuns,      \* parseContent: number of calls started
    uIn,        \* generateSummary, generateGuid: the last call's arguments
    uOut,       \* generateSummary, generateGuid: the value it returned
    hReq,       \* handler: the request being served, [method, url, refresh]
    hRes,       \* handler: the response to the last request
    hPc,        \* handler: "idle", "awaitHtml" or "done"
    hCache,     \* cacheManager: the entries of its four stores
    cIn,        \* CacheManager: the last call made on it from outside
    cOut        \* CacheManager: what that call returned

detectVars == <<dIn, dOut>>
resolveVars == <<rIn, rOut>>
parseVars == <<pInfo, pDoc, clock, pPc, pWork, net, pOut, pPrev, pRuns>>
utilVars == <<uIn, uOut>>
handlerVars == <<hReq, hRes, hPc, hCache>>
cacheVars == <<cIn, cOut>>
vars == <<dIn, dOut, rIn, rOut, pInfo, pDoc, clock, pPc, pWork, net, pOut,
          pPrev, pRuns, uIn, uOut, hReq, hRes, hPc, hCache, cIn, cOut>>

\* program constants
MaxArticles == 20       \* articles.slice(0, 20)
FigmaMaxArticles == 10  \* articles.slice(0, 10)
ShortContent == 500     \* content.length < 500 asks for the full content
MaxFullContent == 5     \* .slice(0, 5) of the articles to fetch
SummaryOfFull == 300    \* generateSummary(..., 300) of a fetched body
MinFullContent == 100   \* content.length < 100 is no substantial content
MinParagraph == 20      \* text.length > 20 of a paragraph that counts
MaxProjectName == 30    \* projectName.length < 30
MinFigmaText == 30      \* text.length > 30
MaxFigmaText == 200     \* text.length < 200
TextKeyLength == 20     \* text.substring(0, 20)
MaxFigmaTitle == 60     \* text.length > 60 ? text.substring(0, 57) + '...'
MaxParagraphs == 10     \* paragraphs.slice(0, 10)
ArticleTimeout == 10000 \* timeout: 10000 of the article fetch

\* bounds of the model
MaxFragments == 1       \* raw-markup fragments of a classified page
MaxNodes == 2           \* nodes of a parsed page (crowded pages aside)
MaxClock == 1           \* instants of the clock after the first
MaxRuns == 2            \* calls of parseContent on one parser
MaxSince == 3           \* quarters of an hour counted since an entry was set

----------------------------------------------------------------------------
(* String.prototype helpers                                                *)

startsWith(s, p) == Len(s) >= Len(p) /\ SubSeq(s, 1, Len(p)) = p

includes(s, p) ==
    \E i \in 1..(Len(s) - Len(p) + 1) : SubSeq(s, i, i + Len(p) - 1) = p

charAt(s, i) == SubSeq(s, i, i)

AsciiLower == {"a","b","c","d","e","f","g","h","i","j","k","l","m",
               "n","o","p","q","r","s","t","u","v","w","x","y","z"}

LowerLetters ==
    <<"a","b","c","d","e","f","g","h","i","j","k","l","m",
      "n","o","p","q","r","s","t","u","v","w","x","y","z">>

UpperLetters ==
    <<"A","B","C","D","E","F","G","H","I","J","K","L","M",
      "N","O","P","Q","R","S","T","U","V","W","X","Y","Z">>

lowerChar(c) ==
    IF \E i \in 1..Len(UpperLetters) : UpperLetters[i] = c
    THEN LowerLetters[CHOOSE i \in 1..Len(UpperLetters) : UpperLetters[i] = c]
    ELSE c

upperChar(c) ==
    IF \E i \in 1..Len(LowerLetters) : LowerLetters[i] = c
    THEN UpperLetters[CHOOSE i \in 1..Len(LowerLetters) : LowerLetters[i] = c]
    ELSE c

\* character by character, the string taken in halves
RECURSIVE toLowerCase(_)
toLowerCase(s) ==
    IF Len(s) <= 1 THEN lowerChar(s)
    ELSE toLowerCase(SubSeq(s, 1, Len(s) \div 2))
            \o toLowerCase(SubSeq(s, Len(s) \div 2 + 1, Len(s)))

\* /\s/ : the white space of the model's texts
IsSpace(c) == c \in {" ", "\n", "\t"}

RECURSIVE trimStart(_)
trimStart(s) ==
    IF s # "" /\ IsSpace(charAt(s, 1)) THEN trimStart(SubSeq(s, 2, Len(s)))
    ELSE s

RECURSIVE trimEnd(_)
trimEnd(s) ==
    IF s # "" /\ IsSpace(charAt(s, Len(s)))
    THEN trimEnd(SubSeq(s, 1, Len(s) - 1))
    ELSE s

trim(s) == trimEnd(trimStart(s))

----------------------------------------------------------------------------
(* URL helpers                                                             *)

\* index of the first occurrence of p in s at or after position from; 0: none
indexOf(s, p, from) ==
    LET hits == {i \in from..(Len(s) - Len(p) + 1) :
                    SubSeq(s, i, i + Len(p) - 1) = p}
    IN  IF hits = {} THEN 0 ELSE CHOOSE i \in hits : \A j \in hits : i <= j

\* new URL(u).origin for the http(s) URLs of the model (lower case, no
\* default port): scheme "://" host, up to the first "/", "?" or "#"
origin(u) ==
    LET a    == indexOf(u, "://", 1)
        ends == {i \in (a + 3)..Len(u) : charAt(u, i) \in {"/", "?", "#"}}
        e    == IF ends = {} THEN Len(u) + 1
                ELSE CHOOSE i \in ends : \A j \in ends : i <= j
    IN  SubSeq(u, 1, e - 1)

\* s.replace(a, b): the first occurrence only
replaceFirst(s, a, b) ==
    LET i == indexOf(s, a, 1)
    IN  IF i = 0 THEN s
        ELSE SubSeq(s, 1, i - 1) \o b \o SubSeq(s, i + Len(a), Len(s))

\* ContentParser.resolveUrl, with this.siteInfo.url = siteUrl and
\* this.baseUrl = origin(siteUrl)
resolveUrl(siteUrl, url) ==
    IF url = "" THEN siteUrl
    ELSE IF startsWith(url, "http") THEN url
    ELSE IF startsWith(url, "//") THEN "https:" \o url
    ELSE IF startsWith(url, "/") THEN origin(siteUrl) \o url
    ELSE origin(siteUrl) \o "/" \o url


----------------------------------------------------------------------------
(* SiteDetector                                                            *)
(*                                                                         *)
(* The html argument is a record of what the detectors read from it:       *)
(*   markup       fragments of the raw markup outside the elements below   *)
(*   generator, alWebUrl, ogSiteName, ogType, description                  *)
(*                content of the meta element of that name, "" when absent *)
(*   adminBar     body carries the class wp-admin-bar-front                *)
(*   newsNodes, productNodes, projectNodes                                 *)
(*                number of elements of class story / product / project    *)

\* the raw markup holds the attribute values and class names of its elements
rawMarkup(html) ==
    html.markup
      \cup {html.generator, html.alWebUrl, html.ogSiteName, html.ogType,
            html.description}
      \cup (IF html.adminBar THEN {"wp-admin-bar-front"} ELSE {})
      \cup (IF html.newsNodes > 0 THEN {"class=\"story\""} ELSE {})
      \cup (IF html.productNodes > 0 THEN {"class=\"product\""} ELSE {})
      \cup (IF html.projectNodes > 0 THEN {"class=\"project\""} ELSE {})

\* html.includes(p)
htmlIncludes(html, p) == \E f \in rawMarkup(html) : includes(f, p)

\* html.toLowerCase().includes(p)
htmlLowerIncludes(html, p) ==
    \E f \in rawMarkup(html) : includes(toLowerCase(f), p)

\* a selector list is the set of its comma-separated simple selectors
NoSelectors == <<>>

detectWordPress(html, url) ==
    LET c1 == IF htmlIncludes(html, "wp-content")
                 \/ htmlIncludes(html, "wp-includes") THEN 30 ELSE 0
        c2 == IF includes(html.generator, "WordPress") THEN 40 ELSE 0
        c3 == IF html.adminBar THEN 20 ELSE 0
        confidence == c1 + c2 + c3
    IN  [type |-> "blog", platform |-> "wordpress", confidence |-> confidence,
         selectors |->
            IF confidence > 50
            THEN  "articles" :> {".post", "article", ".entry"}
               @@ "title" :> {".entry-title", ".post-title", "h1",
                              "h2.entry-title"}
               @@ "content" :> {".entry-content", ".post-content", ".content"}
               @@ "date" :> {".entry-date", ".post-date", "time"}
               @@ "link" :> {".entry-title a", ".post-title a"}
            ELSE NoSelectors,
         features |-> (IF c1 > 0 THEN <<"wp-content-detected">> ELSE <<>>)
                      \o (IF c2 > 0 THEN <<"wp-generator-meta">> ELSE <<>>)]

detectMedium(html, url) ==
    LET c1 == IF includes(url, "medium.com") THEN 60 ELSE 0
        c2 == IF htmlIncludes(html, "Medium")
                 \/ includes(html.alWebUrl, "medium.com") THEN 30 ELSE 0
        confidence == c1 + c2
    IN  [type |-> "blog", platform |-> "medium", confidence |-> confidence,
         selectors |->
            IF confidence > 50
            THEN  "articles" :> {"article", ".postArticle"}
               @@ "title" :> {"h1", ".graf--title"}
               @@ "content" :> {".section-content", ".postArticle-content"}
               @@ "date" :> {"time", ".postMetaInline time"}
               @@ "author" :> {".postMetaInline a"}
            ELSE NoSelectors,
         features |-> IF c1 > 0 THEN <<"medium-domain">> ELSE <<>>]

detectGitHub(html, url) ==
    LET c1 == IF includes(url, "github.io") \/ includes(url, "github.com")
              THEN 50 ELSE 0
        c2 == IF html.ogSiteName = "GitHub" THEN 30 ELSE 0
        confidence == c1 + c2
    IN  [type |-> "repository", platform |-> "github",
         confidence |-> confidence,
         selectors |->
            IF confidence > 50
            THEN  "articles" :> {".commit", ".issue-item", ".release"}
               @@ "title" :> {".commit-title", ".issue-title",
                              ".release-title"}
               @@ "content" :> {".commit-desc", ".issue-body",
                                ".release-body"}
               @@ "date" :> {"time", ".date"}
            ELSE NoSelectors,
         features |-> IF c1 > 0 THEN <<"github-domain">> ELSE <<>>]

detectNews(html, url) ==
    LET c1 == IF html.newsNodes > 5 THEN 20 ELSE 0
        c2 == IF html.ogType = "article" THEN 30 ELSE 0
        c3 == IF htmlIncludes(html, "\"@type\":\"NewsArticle\"")
                 \/ htmlIncludes(html, "\"@type\":\"Article\"")
              THEN 40 ELSE 0
        confidence == c1 + c2 + c3
    IN  [type |-> "news", platform |-> "news", confidence |-> confidence,
         selectors |->
            IF confidence > 30
            THEN  "articles" :> {"article", ".article", ".news-item",
                                 ".story", ".post"}
               @@ "title" :> {"h1", "h2", ".headline", ".title",
                              ".article-title"}
               @@ "content" :> {".article-content", ".story-content",
                                ".content", ".text"}
               @@ "date" :> {"time", ".date", ".published", ".timestamp"}
               @@ "summary" :> {".summary", ".excerpt", ".intro"}
            ELSE NoSelectors,
         features |-> (IF c1 > 0 THEN <<"multiple-articles">> ELSE <<>>)
                      \o (IF c2 > 0 THEN <<"article-meta">> ELSE <<>>)
                      \o (IF c3 > 0 THEN <<"structured-data">> ELSE <<>>)]

ecommerceKeywords == {"price", "cart", "buy", "shop", "product"}

detectECommerce(html, url) ==
    LET c1 == IF html.productNodes > 5 THEN 30 ELSE 0
        c2 == IF htmlIncludes(html, "\"@type\":\"Product\"") THEN 40 ELSE 0
        keywordMatches ==
            Cardinality({k \in ecommerceKeywords : htmlLowerIncludes(html, k)})
        confidence == c1 + c2 + keywordMatches * 5
    IN  [type |-> "ecommerce", platform |-> "shop", confidence |-> confidence,
         selectors |->
            IF confidence > 25
            THEN  "articles" :> {".product", ".item", ".goods", ".listing"}
               @@ "title" :> {".product-title", ".item-title", "h1", "h2"}
               @@ "content" :> {".description", ".product-desc", ".details"}
               @@ "price" :> {".price", ".cost", ".amount"}
            ELSE NoSelectors,
         features |-> (IF c1 > 0 THEN <<"product-listings">> ELSE <<>>)
                      \o (IF c2 > 0 THEN <<"product-structured-data">>
                          ELSE <<>>)]

portfolioKeywords == {"portfolio", "work", "project", "case-study", "design"}

designWords == {"designer", "portfolio", "creative", "artist", "developer"}

detectPortfolio(html, url) ==
    LET keywordMatches ==
            Cardinality({k \in portfolioKeywords :
                            htmlLowerIncludes(html, k)
                              \/ includes(toLowerCase(url), k)})
        c2 == IF html.projectNodes > 2 THEN 30 ELSE 0
        c3 == IF \E w \in designWords :
                    includes(toLowerCase(html.description), w)
              THEN 20 ELSE 0
        confidence == keywordMatches * 10 + c2 + c3
    IN  [type |-> "portfolio", platform |-> "portfolio",
         confidence |-> confidence,
         selectors |->
            IF confidence > 25
            THEN  "articles" :> {".project", ".work", ".case-study",
                                 ".portfolio-item"}
               @@ "title" :> {".project-title", ".work-title", "h1", "h2",
                              "h3"}
               @@ "content" :> {".project-desc", ".work-description",
                                ".description"}
               @@ "image" :> {".project-image", ".work-image", "img"}
               @@ "link" :> {".project-link", ".work-link", "a"}
            ELSE NoSelectors,
         features |-> (IF c2 > 0 THEN <<"project-listings">> ELSE <<>>)
                      \o (IF c3 > 0 THEN <<"design-description">> ELSE <<>>)]

detectGeneric(html, url) ==
    [type |-> "generic", platform |-> "unknown", confidence |-> 10,
     selectors |->
          "articles" :> {"article", ".post", ".entry", ".item",
                         ".content-item"}
       @@ "title" :> {"h1", "h2", ".title", ".headline", ".entry-title"}
       @@ "content" :> {".content", ".text", ".description", ".summary"}
       @@ "date" :> {"time", ".date", ".published"}
       @@ "link" :> {"a"},
     features |-> <<"generic-fallback">>]

\* the methods the class SiteDetector defines
SiteDetectorMethods ==
    {"detectSiteType", "detectWordPress", "detectMedium", "detectGitHub",
     "detectNews", "detectECommerce", "detectPortfolio", "detectGeneric"}

\* this.detectors, as the constructor fills it: this.<name> for each name,
\* which is undefined when the class has no method of that name
detectors ==
    <<"detectWordPress", "detectBlogger", "detectMedium", "detectGitHub",
      "detectNews", "detectECommerce", "detectPortfolio", "detectGeneric">>

callDetector(name, html, url) ==
    CASE name = "detectWordPress" -> detectWordPress(html, url)
      [] name = "detectMedium"    -> detectMedium(html, url)
      [] name = "detectGitHub"    -> detectGitHub(html, url)
      [] name = "detectNews"      -> detectNews(html, url)
      [] name = "detectECommerce" -> detectECommerce(html, url)
      [] name = "detectPortfolio" -> detectPortfolio(html, url)
      [] name = "detectGeneric"   -> detectGeneric(html, url)

\* Object.assign(siteInfo, result): every key of result overwrites siteInfo's
objectAssign(siteInfo, result) ==
    [url |-> siteInfo.url, type |-> result.type, platform |-> result.platform,
     confidence |-> result.confidence, selectors |-> result.selectors,
     features |-> result.features]

\* the for-of loop of detectSiteType from detector i on; detector.call on an
\* undefined entry raises a TypeError, which rejects the returned promise
RECURSIVE runDetectors(_, _, _, _)
runDetectors(i, siteInfo, html, url) ==
    IF i > Len(detectors)
    THEN [status |-> "returned", ran |-> i - 1, siteInfo |-> siteInfo]
    ELSE IF detectors[i] \notin SiteDetectorMethods
    THEN [status |-> "threw", ran |-> i - 1, siteInfo |-> siteInfo]
    ELSE LET result == callDetector(detectors[i], html, url)
         IN  runDetectors(i + 1,
                          IF result.confidence > siteInfo.confidence
                          THEN objectAssign(siteInfo, result)
                          ELSE siteInfo,
                          html, url)

detectSiteType(html, url) ==
    runDetectors(1,
                 [url |-> url, type |-> "unknown", platform |-> "unknown",
                  confidence |-> 0, selectors |-> NoSelectors,
                  features |-> <<>>],
                 html, url)


----------------------------------------------------------------------------
(* The parsed page: cheerio.load(html)                                     *)
(*                                                                         *)
(* A page is a sequence of nodes in document order.  A node is an element  *)
(*   [tag, cls, id, within, kids]                                          *)
(* where within is the id of the container the node lies in ("" for none)  *)
(* and kids are its descendants in document order, each                    *)
(*   [tag, cls, id, in, text, href, datetime, src]                         *)
(* with in = 0 for a child of the node and in = j for a child of kid j,    *)
(* and text the element's own text.  An element of the page is a pair      *)
(* <<a, i>>: node a itself (i = 0) or its kid i.                           *)

elemAt(page, e) ==
    IF e[2] = 0
    THEN [tag |-> page[e[1]].tag, cls |-> page[e[1]].cls, id |-> page[e[1]].id]
    ELSE LET k == page[e[1]].kids[e[2]]
         IN  [tag |-> k.tag, cls |-> k.cls, id |-> k.id]

parentOf(page, e) == <<e[1], page[e[1]].kids[e[2]].in>>

\* the ancestors of an element, nearest first; the outermost is the container
RECURSIVE ancestorsOf(_, _)
ancestorsOf(page, e) ==
    IF e[2] = 0
    THEN <<[tag |-> "div", cls |-> {}, id |-> page[e[1]].within]>>
    ELSE <<elemAt(page, parentOf(page, e))>>
            \o ancestorsOf(page, parentOf(page, e))

RECURSIVE isDescendant(_, _, _)
\* element <<a, j>> lies strictly inside element <<a, i>>
isDescendant(page, e, j) ==
    /\ j # 0
    /\ LET q == page[e[1]].kids[j].in
       IN  q = e[2] \/ (q # 0 /\ isDescendant(page, e, q))

\* the pieces of s between occurrences of the character ch
RECURSIVE split(_, _)
split(s, ch) ==
    LET i == indexOf(s, ch, 1)
    IN  IF i = 0 THEN <<s>>
        ELSE <<SubSeq(s, 1, i - 1)>> \o split(SubSeq(s, i + 1, Len(s)), ch)

\* el matches the compound selector c: tag, .class and #id parts
compoundMatches(el, c) ==
    LET marks == {i \in 1..Len(c) : charAt(c, i) \in {".", "#"}}
        nextMark(i) ==
            LET later == {j \in marks : j > i}
            IN  IF later = {} THEN Len(c) + 1
                ELSE CHOOSE j \in later : \A k \in later : j <= k
        tagPart == SubSeq(c, 1, nextMark(0) - 1)
    IN  /\ tagPart = "" \/ tagPart = el.tag
        /\ \A i \in marks :
              LET name == SubSeq(c, i + 1, nextMark(i) - 1)
              IN  IF charAt(c, i) = "." THEN name \in el.cls ELSE name = el.id

\* the compounds left of a descendant combinator match ancestors, in order
RECURSIVE chainMatches(_, _)
chainMatches(parts, ancs) ==
    \/ parts = <<>>
    \/ \E k \in 1..Len(ancs) :
          /\ compoundMatches(ancs[k], parts[Len(parts)])
          /\ chainMatches(SubSeq(parts, 1, Len(parts) - 1),
                          SubSeq(ancs, k + 1, Len(ancs)))

\* element e matches the simple selector whose compounds are parts
matchesParts(page, e, parts) ==
    /\ compoundMatches(elemAt(page, e), parts[Len(parts)])
    /\ chainMatches(SubSeq(parts, 1, Len(parts) - 1), ancestorsOf(page, e))

\* element e matches one of the simple selectors of the list
matches(page, e, selector) ==
    \E sel \in selector : matchesParts(page, e, split(sel, " "))

\* the elements of a node, the node first, as an ascending sequence
seqOfSet(S) ==
    LET nth[n \in 0..Cardinality(S)] ==
            IF n = 0 THEN <<>>
            ELSE LET rest == {x \in S : \A k \in 1..(n - 1) : nth[n - 1][k] # x}
                 IN  nth[n - 1] \o <<CHOOSE x \in rest : \A y \in rest : x <= y>>
    IN  nth[Cardinality(S)]

\* the elements of node a at the positions is
elementsOf(a, is) == [k \in 1..Len(is) |-> <<a, is[k]>>]

\* the elements of nodes lo..hi that match, in document order (the range is
\* taken in halves)
RECURSIVE selectIn(_, _, _, _)
selectIn(page, selector, lo, hi) ==
    IF lo > hi THEN <<>>
    ELSE IF lo = hi
    THEN elementsOf(lo, seqOfSet({i \in 0..Len(page[lo].kids) :
                                     matches(page, <<lo, i>>, selector)}))
    ELSE selectIn(page, selector, lo, (lo + hi) \div 2)
            \o selectIn(page, selector, (lo + hi) \div 2 + 1, hi)

\* $(selector): every element of the page that matches, in document order
select(page, selector) == selectIn(page, selector, 1, Len(page))

\* $el.find(selector): the matching descendants of e, in document order
find(page, e, selector) ==
    elementsOf(e[1], seqOfSet({j \in 1..Len(page[e[1]].kids) :
                                  /\ isDescendant(page, e, j)
                                  /\ matches(page, <<e[1], j>>, selector)}))

\* $el.text(): the element's text with that of its descendants
RECURSIVE textFrom(_, _, _)
textFrom(page, e, j) ==
    IF j > Len(page[e[1]].kids) THEN ""
    ELSE (IF j = e[2] \/ isDescendant(page, e, j)
          THEN page[e[1]].kids[j].text ELSE "")
            \o textFrom(page, e, j + 1)

text(page, e) == textFrom(page, e, 1)

\* the combined text of a set of matched elements
RECURSIVE textAll(_, _)
textAll(page, es) ==
    IF es = <<>> THEN "" ELSE text(page, Head(es)) \o textAll(page, Tail(es))

\* $el.attr(name) of the first element of a matched set
attr(page, es, name) ==
    IF es = <<>> \/ es[1][2] = 0 THEN ""
    ELSE LET k == page[es[1][1]].kids[es[1][2]]
         IN  CASE name = "href"     -> k.href
               [] name = "datetime" -> k.datetime
               [] name = "src"      -> k.src

first(es) == IF es = <<>> THEN <<>> ELSE <<es[1]>>

----------------------------------------------------------------------------
(* ContentParser: utilities                                                *)

\* selectors.role, {} standing for undefined (the role is not in the map)
role(siteInfo, name) ==
    IF name \in DOMAIN siteInfo.selectors THEN siteInfo.selectors[name] ELSE {}

\* a || b on strings
orElse(a, b) == IF a # "" THEN a ELSE b

\* the text of element, or of $el itself when element is empty and $el
\* matches the selector
textOf(page, e, selector, element) ==
    IF element = <<>>
    THEN IF matches(page, e, selector) THEN text(page, e) ELSE ""
    ELSE text(page, element[1])

extractText(page, e, selector) ==
    IF selector = {} THEN ""
    ELSE textOf(page, e, selector, first(find(page, e, selector)))

\* link = found || anyLink, resolved, or the page's URL for none
linkOf(siteInfo, found, anyLink) ==
    IF orElse(found, anyLink) # ""
    THEN resolveUrl(siteInfo.url, orElse(found, anyLink))
    ELSE siteInfo.url

\* extractLink without the test `if (!selector)`
extractLinkUnguarded(siteInfo, page, e, selector) ==
    linkOf(siteInfo,
           attr(page, first(find(page, e, selector)), "href"),
           attr(page, first(find(page, e, {"a"})), "href"))

extractLink(siteInfo, page, e, selector) ==
    IF selector = {} THEN siteInfo.url
    ELSE linkOf(siteInfo,
                attr(page, first(find(page, e, selector)), "href"),
                attr(page, first(find(page, e, {"a"})), "href"))

imageOf(siteInfo, src) ==
    IF src # "" THEN resolveUrl(siteInfo.url, src) ELSE ""

extractImage(siteInfo, page, e, selector) ==
    IF selector = {} THEN ""
    ELSE imageOf(siteInfo, attr(page, first(find(page, e, selector)), "src"))

\* dateEl.attr('datetime') || dateEl.text(), '' for no dateEl
dateOf(page, dateEl) ==
    IF dateEl = <<>> THEN ""
    ELSE orElse(attr(page, dateEl, "datetime"), text(page, dateEl[1]))

extractDate(page, e, selector) ==
    IF selector = {} THEN ""
    ELSE dateOf(page, first(find(page, e, selector)))

\* what is left of the character at position i when every run of white
\* space becomes one blank
collapsedAt(s, i) ==
    IF ~IsSpace(charAt(s, i)) THEN charAt(s, i)
    ELSE IF i > 1 /\ IsSpace(charAt(s, i - 1)) THEN ""
    ELSE " "

RECURSIVE collapseRange(_, _, _)
collapseRange(s, lo, hi) ==
    IF lo > hi THEN ""
    ELSE IF lo = hi THEN collapsedAt(s, lo)
    ELSE collapseRange(s, lo, (lo + hi) \div 2)
            \o collapseRange(s, (lo + hi) \div 2 + 1, hi)

\* text.replace(/\s+/g, ' ')
collapseSpace(s) == collapseRange(s, 1, Len(s))

\* generateSummary with the length of the raw text tested in place of the
\* length of the cleaned one
generateSummaryByRawLength(txt, maxLength) ==
    IF txt = "" THEN ""
    ELSE LET clean == trim(collapseSpace(txt))
         IN  IF Len(txt) > maxLength
             THEN SubSeq(clean, 1, maxLength) \o "..."
             ELSE clean

generateSummary(txt, maxLength) ==
    IF txt = "" THEN ""
    ELSE LET clean == trim(collapseSpace(txt))
         IN  IF Len(clean) > maxLength
             THEN SubSeq(clean, 1, maxLength) \o "..."
             ELSE clean

\* the first 16 hex digits of the MD5 digest of s, written symbolically:
\* equal for equal s, and taken as free of collisions
md5hex16(s) == "md5[" \o s \o "]"

\* the code units of the model that are unpaired surrogates: "^" stands for
\* U+D800 and "~" for U+D801; "|" stands for U+FFFD
LoneSurrogates == {"^", "~"}

\* hash.update(string) takes the UTF-8 encoding of the string, in which an
\* unpaired surrogate is replaced by U+FFFD
RECURSIVE utf8(_)
utf8(s) ==
    IF Len(s) <= 1 THEN (IF s \in LoneSurrogates THEN "|" ELSE s)
    ELSE utf8(SubSeq(s, 1, Len(s) \div 2))
            \o utf8(SubSeq(s, Len(s) \div 2 + 1, Len(s)))

generateGuid(siteInfo, identifier) ==
    "rssos-" \o md5hex16(utf8(identifier \o siteInfo.url))

\* new Date(t).toUTCString() for the date texts of the model
KnownDates ==
       "2024-09-25" :> "Wed, 25 Sep 2024 00:00:00 GMT"
    @@ "2024-09-25 00:00:00" :> "Wed, 25 Sep 2024 00:00:00 GMT"

dateToUTCString(t) ==
    IF t \in DOMAIN KnownDates THEN KnownDates[t] ELSE "Invalid Date"

\* new Date().toUTCString() at instant now of the model's clock
nowToUTCString(now) == "Sun, 01 Nov 2026 00:00:0" \o ToString(now) \o " GMT"

pubDateOf(date, now) ==
    IF date # "" THEN dateToUTCString(date) ELSE nowToUTCString(now)

generatePortfolioContent(title, content, image) ==
    "<h2>" \o title \o "</h2>"
      \o (IF image # "" THEN "<img src=\"" \o image \o "\" alt=\"" \o title
                               \o "\"/>" ELSE "")
      \o (IF content # "" THEN "<p>" \o content \o "</p>" ELSE "")

generateProductContent(title, content, price) ==
    "<h2>" \o title \o "</h2>"
      \o (IF price # "" THEN "<p><strong>Price: " \o price \o "</strong></p>"
          ELSE "")
      \o (IF content # "" THEN "<p>" \o content \o "</p>" ELSE "")

\* the records of the items kept
recsOf(kept) == [k \in 1..Len(kept) |-> kept[k].rec]

\* $(selector).each((index, element) => ...) over the elements els, pushing
\* item(el, k).rec for every element with item(el, k).keep
eachElement(els, item(_, _)) ==
    recsOf(SelectSeq([k \in 1..Len(els) |-> item(els[k], k)],
                     LAMBDA x : x.keep))

\* articles.slice(0, n)
slice(articles, n) ==
    IF Len(articles) > n THEN SubSeq(articles, 1, n) ELSE articles

----------------------------------------------------------------------------
(* ContentParser: the strategies that make no network call                 *)

genericArticle(siteInfo, now, title, content, link, date) ==
    [keep |-> title # "" /\ Len(title) > 5,
     rec  |-> [title |-> trim(title), link |-> link,
               description |-> generateSummary(content, 200),
               content |-> content,
               pubDate |-> pubDateOf(date, now),
               guid |-> generateGuid(siteInfo, orElse(link, title))]]

parseGenericContent(siteInfo, page, now) ==
    eachElement(
        select(page, role(siteInfo, "articles")),
        LAMBDA el, k :
            genericArticle(siteInfo, now,
                extractText(page, el, role(siteInfo, "title")),
                extractText(page, el, role(siteInfo, "content")),
                extractLink(siteInfo, page, el, role(siteInfo, "link")),
                extractDate(page, el, role(siteInfo, "date"))))

blogArticle(siteInfo, now, title, content, link, date, author) ==
    [keep |-> title # "",
     rec  |-> [title |-> trim(title), link |-> link,
               description |-> generateSummary(content, 200),
               content |-> content,
               pubDate |-> pubDateOf(date, now),
               guid |-> generateGuid(siteInfo, orElse(link, title)),
               author |-> orElse(author, "Unknown")]]

\* parseBlogContent for a platform other than movable-type
parseBlogContent(siteInfo, page, now) ==
    eachElement(
        select(page, role(siteInfo, "articles")),
        LAMBDA el, k :
            blogArticle(siteInfo, now,
                extractText(page, el, role(siteInfo, "title")),
                extractText(page, el, role(siteInfo, "content")),
                extractLink(siteInfo, page, el, role(siteInfo, "link")),
                extractDate(page, el, role(siteInfo, "date")),
                extractText(page, el, role(siteInfo, "author"))))

newsArticle(siteInfo, now, title, content, summary, link, date) ==
    [keep |-> title # "",
     rec  |-> [title |-> trim(title), link |-> link,
               description |-> orElse(summary, generateSummary(content, 150)),
               content |-> content,
               pubDate |-> pubDateOf(date, now),
               guid |-> generateGuid(siteInfo, orElse(link, title)),
               category |-> "News"]]

parseNewsContent(siteInfo, page, now) ==
    eachElement(
        select(page, role(siteInfo, "articles")),
        LAMBDA el, k :
            newsArticle(siteInfo, now,
                extractText(page, el, role(siteInfo, "title")),
                extractText(page, el, role(siteInfo, "content")),
                extractText(page, el, role(siteInfo, "summary")),
                extractLink(siteInfo, page, el, role(siteInfo, "link")),
                extractDate(page, el, role(siteInfo, "date"))))

productArticle(siteInfo, now, title, content, link, price) ==
    [keep |-> title # "",
     rec  |-> [title |-> trim(title), link |-> link,
               description |->
                  orElse(content, "Product details")
                    \o (IF price # "" THEN " - " \o price ELSE ""),
               content |-> generateProductContent(title, content, price),
               pubDate |-> nowToUTCString(now),
               guid |-> generateGuid(siteInfo, orElse(link, title)),
               category |-> "Product"]]

parseECommerceContent(siteInfo, page, now) ==
    eachElement(
        select(page, role(siteInfo, "articles")),
        LAMBDA el, k :
            productArticle(siteInfo, now,
                extractText(page, el, role(siteInfo, "title")),
                extractText(page, el, role(siteInfo, "content")),
                extractLink(siteInfo, page, el, role(siteInfo, "link")),
                extractText(page, el, role(siteInfo, "price"))))

repositoryArticle(siteInfo, now, title, content, link, date) ==
    [keep |-> title # "",
     rec  |-> [title |-> trim(title), link |-> link,
               description |-> orElse(content, title),
               content |-> content,
               pubDate |-> pubDateOf(date, now),
               guid |-> generateGuid(siteInfo, orElse(link, title)),
               category |-> "Repository"]]

parseRepositoryContent(siteInfo, page, now) ==
    eachElement(
        select(page, role(siteInfo, "articles")),
        LAMBDA el, k :
            repositoryArticle(siteInfo, now,
                extractText(page, el, role(siteInfo, "title")),
                extractText(page, el, role(siteInfo, "content")),
                extractLink(siteInfo, page, el, role(siteInfo, "link")),
                extractDate(page, el, role(siteInfo, "date"))))

portfolioArticle(siteInfo, now, title, content, link, image) ==
    [keep |-> title # "",
     rec  |-> [title |-> trim(title), link |-> link,
               description |->
                  orElse(trim(content), "View details of " \o title),
               content |-> generatePortfolioContent(title, content, image),
               pubDate |-> nowToUTCString(now),
               guid |-> generateGuid(siteInfo, orElse(link, title)),
               image |-> image]]

\* the standard branch of parsePortfolioContent (no embedded JSON)
parseStandardPortfolio(siteInfo, page, now) ==
    slice(eachElement(
              select(page, role(siteInfo, "articles")),
              LAMBDA el, k :
                  portfolioArticle(siteInfo, now,
                      orElse(extractText(page, el, role(siteInfo, "title")),
                             "Project " \o ToString(k)),
                      extractText(page, el, role(siteInfo, "content")),
                      extractLink(siteInfo, page, el, role(siteInfo, "link")),
                      extractImage(siteInfo, page, el,
                                   role(siteInfo, "image")))),
          MaxArticles)

----------------------------------------------------------------------------
(* ContentParser: the Movable Type strategy                                *)
(*                                                                         *)
(* The Chinese literals of the source are written in ASCII: the author     *)
(* name as "Ruan Yifeng", the "more articles" label as "More articles",    *)
(* the guillemet as ">>".                                                  *)

\* $el.html() of a matched set: the inner markup of its first element, which
\* for the text-only elements of the model is its text
innerHtml(page, es) == IF es = <<>> THEN "" ELSE text(page, es[1])

\* pubDate of an article of either zone: the date parsed from dateText when
\* there is a date element with a text that parses, the current time otherwise
mtPubDate(hasDate, dateText, now) ==
    IF hasDate /\ dateText # "" /\ dateToUTCString(dateText) # "Invalid Date"
    THEN dateToUTCString(dateText)
    ELSE nowToUTCString(now)

\* the positions of the items that are pushed: an item is a record
\* [keep, key, rec], pushed when keep holds and no item pushed before it has
\* its key (the set of keys seen holds the keys of the items pushed so far,
\* so that is: no earlier item with keep has its key)
\* pushedAt without the test on the links seen
pushedAtUnchecked(items) ==
    SelectSeq([k \in 1..Len(items) |-> k], LAMBDA k : items[k].keep)

pushedAt(items) ==
    SelectSeq([k \in 1..Len(items) |-> k],
              LAMBDA k : /\ items[k].keep
                         /\ \A j \in 1..(k - 1) :
                               ~(items[j].keep /\ items[j].key = items[k].key))

recsAt(items, at) == [n \in 1..Len(at) |-> items[at[n]].rec]

\* the articles pushed by a loop over items in order
pushedOf(items) == recsAt(items, pushedAt(items))

entryRecord(siteInfo, now, title, link, content, hasDate, dateText) ==
    [keep |-> title # "",
     key  |-> link,
     rec  |-> [title |-> title, link |-> link,
               description |->
                  generateSummary(IF content # "" THEN content ELSE title,
                                  200),
               content |-> orElse(content, "<p>" \o title \o "</p>"),
               pubDate |-> mtPubDate(hasDate, dateText, now),
               guid |-> generateGuid(siteInfo, link),
               author |-> "Ruan Yifeng", category |-> "Blog",
               needsFullContent |->
                  content = "" \/ Len(content) < ShortContent]]

\* the callback of $('.entry-asset').each for the matched sets titleEl,
\* contentEl and dateEl of one element
entryArticle(siteInfo, page, now, titleEl, contentEl, dateEl) ==
    entryRecord(siteInfo, now,
        IF titleEl # <<>> THEN trim(textAll(page, titleEl)) ELSE "",
        IF \E n \in 1..Len(titleEl) : matches(page, titleEl[n], {"a"})
        THEN resolveUrl(siteInfo.url, attr(page, titleEl, "href"))
        ELSE siteInfo.url,
        innerHtml(page, contentEl),
        dateEl # <<>>,
        orElse(attr(page, dateEl, "datetime"), textAll(page, dateEl)))

\* $('.entry-asset').each(...): what the callback makes of each element
mtEntries(siteInfo, page, now, els) ==
    [k \in 1..Len(els) |->
        entryArticle(siteInfo, page, now,
            find(page, els[k], {".asset-name.entry-title a",
                                ".asset-name.entry-title"}),
            find(page, els[k], {".asset-content", ".asset-body",
                                ".entry-content"}),
            find(page, els[k], {".asset-date", ".published", "time"}))]

\* dateText.replace('>>', '') with the guillemet written ">>"
dropGuillemet(s) ==
    replaceFirst(s, ">>", "")

recentRecord(siteInfo, now, found, title, link, hasDate, dateText) ==
    [keep |-> found /\ title # "" /\ ~includes(title, "More articles"),
     key  |-> link,
     rec  |-> [title |-> title, link |-> link,
               description |-> "Ruan Yifeng's blog: " \o title,
               content |-> "<h2>" \o title \o "</h2><p>An article of "
                             \o "Ruan Yifeng's blog.</p>",
               pubDate |-> mtPubDate(hasDate /\ dateText # "",
                                     dateText \o " 00:00:00", now),
               guid |-> generateGuid(siteInfo, link),
               author |-> "Ruan Yifeng", category |-> "Blog",
               needsFullContent |-> TRUE]]

\* the callback of $('#homepage .module-list-item').each for the matched
\* sets linkEl and dateSpan of one element
recentArticle(siteInfo, page, now, linkEl, dateSpan) ==
    recentRecord(siteInfo, now,
        linkEl # <<>>,
        trim(textAll(page, linkEl)),
        resolveUrl(siteInfo.url, attr(page, linkEl, "href")),
        dateSpan # <<>>,
        trim(dropGuillemet(textAll(page, dateSpan))))

\* $('#homepage .module-list-item').each(...): what the callback makes of
\* each element
mtRecent(siteInfo, page, now, els) ==
    [k \in 1..Len(els) |->
        recentArticle(siteInfo, page, now,
            find(page, els[k], {"a"}),
            first(find(page, els[k], {"span"})))]

\* parseMovableTypeBlog up to the loop of secondary fetches: the candidate
\* articles of the two zones, each with its needsFullContent mark
mtCandidates(siteInfo, page, now) ==
    pushedOf(mtEntries(siteInfo, page, now, select(page, {".entry-asset"}))
               \o mtRecent(siteInfo, page, now,
                           select(page, {"#homepage .module-list-item"})))

\* articlesToFetch without slice(0, 5)
articlesToFetchUncapped(arts) ==
    SelectSeq([k \in 1..Len(arts) |-> k],
              LAMBDA k : arts[k].needsFullContent)

\* articles.filter(a => a.needsFullContent).slice(0, 5), as positions in
\* articles (the loop updates the very objects of the list)
articlesToFetch(arts) ==
    slice(SelectSeq([k \in 1..Len(arts) |-> k],
                    LAMBDA k : arts[k].needsFullContent),
          MaxFullContent)

\* delete article.needsFullContent
withoutMark(a) == [f \in DOMAIN a \ {"needsFullContent"} |-> a[f]]

\* the tail of parseMovableTypeBlog: every mark deleted, the list capped
mtReturn(arts) == slice([k \in 1..Len(arts) |-> withoutMark(arts[k])],
                        MaxArticles)

\* fullContent.replace(/<[^>]*>/g, ''): the markup without its tags
RECURSIVE stripTags(_)
stripTags(s) ==
    LET lt == indexOf(s, "<", 1)
        gt == IF lt = 0 THEN 0 ELSE indexOf(s, ">", lt + 1)
    IN  IF lt = 0 \/ gt = 0 THEN s
        ELSE SubSeq(s, 1, lt - 1) \o stripTags(SubSeq(s, gt + 1, Len(s)))

\* the body of the loop for one article, fullContent being what
\* fetchRuanyifengArticleContent resolved to ("" for null)
\* withFullContent without the test `if (fullContent)`
withFullContentUntested(a, fullContent) ==
    withoutMark([a EXCEPT !.content = fullContent,
                          !.description =
                             generateSummary(stripTags(fullContent),
                                             SummaryOfFull)])

withFullContent(a, fullContent) ==
    IF fullContent # ""
    THEN withoutMark([a EXCEPT !.content = fullContent,
                               !.description =
                                  generateSummary(stripTags(fullContent),
                                                  SummaryOfFull)])
    ELSE withoutMark(a)

----------------------------------------------------------------------------
(* ContentParser: the secondary fetch of an article's full content         *)
(*                                                                         *)
(* What fetch(articleUrl) settles to is a record [kind, body]: kind        *)
(* "error" (the promise rejects: network error or timeout), "status" (a    *)
(* response that is not ok) or "ok"; body, the fetched page, is            *)
(*   [content     the elements inside the first element that one of the    *)
(*                contentSelectors finds, <<>> when none finds any,        *)
(*    title       the text of the first h1, .asset-name or .entry-title,   *)
(*    paragraphs  the trimmed texts of the p elements, in order]           *)
(* An element of content is [el, val]: el "p" with val its text, "img"     *)
(* with its src, "a" with its href, "script" or "footer" (of class         *)
(* asset-footer) with its text, "raw" with markup that holds none of       *)
(* these.  The comment prompt of the source is written "Comment".          *)

serialize(piece) ==
    CASE piece.el = "raw"    -> piece.val
      [] piece.el = "p"      -> "<p>" \o piece.val \o "</p>"
      [] piece.el = "img"    -> "<img src=\"" \o piece.val \o "\">"
      [] piece.el = "a"      -> "<a href=\"" \o piece.val \o "\">link</a>"
      [] piece.el = "script" -> "<script>" \o piece.val \o "</script>"
      [] piece.el = "footer" -> "<div class=\"asset-footer\">" \o piece.val
                                  \o "</div>"

RECURSIVE serializeAll(_)
serializeAll(pieces) ==
    IF pieces = <<>> THEN ""
    ELSE serialize(Head(pieces)) \o serializeAll(Tail(pieces))

\* cleanRuanyifengContent on the elements of content: the markup that
\* $.html() gives for the document cheerio.load builds around them
cleanRuanyifengContent(pieces) ==
    LET kept == SelectSeq(pieces, LAMBDA q : q.el \notin {"script", "footer"})
        fixed(q) ==
            CASE q.el = "img" ->
                    "<img src=\""
                      \o (IF q.val # "" /\ ~startsWith(q.val, "http")
                          THEN IF startsWith(q.val, "/")
                               THEN "https://www.ruanyifeng.com" \o q.val
                               ELSE "https://www.ruanyifeng.com/blog/" \o q.val
                          ELSE q.val)
                      \o "\" style=\"max-width: 100%; height: auto;\">"
              [] q.el = "a" ->
                    serialize([q EXCEPT !.val =
                        IF /\ q.val # ""
                           /\ ~startsWith(q.val, "http")
                           /\ ~startsWith(q.val, "mailto")
                           /\ startsWith(q.val, "/")
                        THEN "https://www.ruanyifeng.com" \o q.val
                        ELSE q.val])
              [] OTHER -> serialize(q)
        RECURSIVE out(_)
        out(k) == IF k > Len(kept) THEN "" ELSE fixed(kept[k]) \o out(k + 1)
    IN  "<html><head></head><body>" \o out(1) \o "</body></html>"

\* paragraphs.slice(0, 10).join('\n') of the paragraphs that qualify
RECURSIVE joinParagraphs(_, _)
joinParagraphs(ps, k) ==
    IF k > Len(ps) \/ k > MaxParagraphs THEN ""
    ELSE (IF k > 1 THEN "\n" ELSE "") \o "<p>" \o ps[k] \o "</p>"
            \o joinParagraphs(ps, k + 1)

\* fetchRuanyifengArticleContent: the markup it resolves to, "" for null
fetchRuanyifengArticleContent(response) ==
    IF response.kind # "ok" THEN ""
    ELSE
      LET body == response.body
          paragraphs ==
              SelectSeq(body.paragraphs,
                        LAMBDA t : /\ Len(t) > MinParagraph
                                   /\ ~includes(t, "Comment")
                                   /\ ~includes(t, "Email"))
          found == serializeAll(body.content)
          byParagraphs == found = "" /\ paragraphs # <<>>
          content ==
              IF found # "" THEN found
              ELSE IF paragraphs # <<>>
              THEN "<h2>" \o body.title \o "</h2>\n"
                     \o joinParagraphs(paragraphs, 1)
              ELSE ""
      IN  IF content = "" \/ Len(content) < MinFullContent THEN ""
          ELSE IF byParagraphs
          THEN cleanRuanyifengContent(<<[el |-> "raw", val |-> content]>>)
          ELSE cleanRuanyifengContent(body.content)

----------------------------------------------------------------------------
(* ContentParser: the embedded-JSON (Figma) strategy                       *)
(*                                                                         *)
(* The raw markup of a parsed page is a set of fragments.  What            *)
(* fetch(jsonUrl) followed by .json() settles to is a record [kind, data]: *)
(* kind "error" (fetch rejects), "status" (response not ok), "malformed"   *)
(* (json() rejects) or "ok"; data is [hasNodeById, nodes], nodes being the *)
(* entries of nodeById in key order, each                                  *)
(*   [id, interactions, type, characters]                                  *)
(* where interactions lists, per interaction, actions[0].connectionURL     *)
(* ("" when the interaction has no action or the action no URL).           *)

\* the group ([^"]*\/_json\/[^"]*\.json) when cap, the text between
\* href=" and the next quote, has that form; "" otherwise
jsonPath(cap) ==
    IF /\ indexOf(cap, "/_json/", 1) # 0
       /\ Len(cap) >= indexOf(cap, "/_json/", 1) + 7 + 5 - 1
       /\ SubSeq(cap, Len(cap) - 4, Len(cap)) = ".json"
    THEN cap ELSE ""

\* the match in f at the keyword found at kw, the href found at hr and the
\* closing quote found at q (0 for not found)
hrefGroup(f, kw, hr, q) ==
    IF kw = 0 \/ hr = 0 \/ q = 0 \/ includes(SubSeq(f, kw + 9, hr - 1), ">")
    THEN ""
    ELSE jsonPath(SubSeq(f, hr + 6, q - 1))

hrefFrom(f, kw, hr) ==
    hrefGroup(f, kw, hr, IF hr = 0 THEN 0 ELSE indexOf(f, "\"", hr + 6))

preloadFrom(f, kw) ==
    hrefFrom(f, kw, IF kw = 0 THEN 0 ELSE indexOf(f, "href=\"", kw + 9))

\* the first group of
\*   /"preload"[^>]*href="([^"]*\/_json\/[^"]*\.json)"/
\* in fragment f, "" when f has no match
preloadJsonHref(f) == preloadFrom(f, indexOf(f, "\"preload\"", 1))

\* some member of a set of strings, "" for the empty set
anyOf(hits) == IF hits = {} THEN "" ELSE CHOOSE h \in hits : TRUE

\* html.match(...)[1] over the fragments of the markup, "" for no match
jsonUrlMatch(markup) == anyOf({preloadJsonHref(f) : f \in markup} \ {""})

\* html.includes('_json/') && html.includes('.json')
looksFigma(markup) ==
    /\ \E f \in markup : includes(f, "_json/")
    /\ \E f \in markup : includes(f, ".json")

\* s.replace(/\n/g, ' ')
RECURSIVE newlinesToSpaces(_)
newlinesToSpaces(s) ==
    IF Len(s) <= 1 THEN (IF s = "\n" THEN " " ELSE s)
    ELSE newlinesToSpaces(SubSeq(s, 1, Len(s) \div 2))
            \o newlinesToSpaces(SubSeq(s, Len(s) \div 2 + 1, Len(s)))

\* s.replace(/\n/g, '</p><p>')
RECURSIVE newlinesToParagraphs(_)
newlinesToParagraphs(s) ==
    IF Len(s) <= 1 THEN (IF s = "\n" THEN "</p><p>" ELSE s)
    ELSE newlinesToParagraphs(SubSeq(s, 1, Len(s) \div 2))
            \o newlinesToParagraphs(SubSeq(s, Len(s) \div 2 + 1, Len(s)))

capitalize(str) ==
    IF str = "" THEN "" ELSE upperChar(charAt(str, 1)) \o SubSeq(str, 2, Len(str))

generateFigmaProjectContent(siteInfo, projectName, projectUrl) ==
    "<h2>" \o capitalize(projectName) \o " - Design Project</h2>"
      \o "<p>This project showcases innovative design work and creative "
      \o "problem-solving approaches.</p>"
      \o "<h3>Key Highlights:</h3><ul>"
      \o "<li>User-centered design approach</li>"
      \o "<li>Innovative visual solutions</li>"
      \o "<li>Comprehensive research and testing</li>"
      \o "<li>Modern, clean aesthetic</li></ul>"
      \o "<p><a href=\"" \o origin(siteInfo.url) \o projectUrl
      \o "\">View full project details</a></p>"

\* Date.now() at instant now of the model's clock
dateNow(now) == ToString(now)

\* the callback of node.interactions.forEach for an interaction whose
\* actions[0].connectionURL is connectionURL and whose project name is
\* projectName
interactionItem(siteInfo, node, now, connectionURL, projectName) ==
    [keep |-> /\ connectionURL # ""
              /\ startsWith(connectionURL, "/")
              /\ ~includes(connectionURL, "http")
              /\ Len(connectionURL) > 1
              /\ projectName # ""
              /\ Len(projectName) < MaxProjectName,
     key  |-> "project-" \o projectName,
     rec  |-> [title |-> capitalize(projectName) \o " - Portfolio Project",
               link |-> origin(siteInfo.url) \o connectionURL,
               description |->
                  "Explore the " \o projectName \o " project featuring "
                    \o "innovative design work, UX research, and "
                    \o "creative solutions.",
               content |-> generateFigmaProjectContent(siteInfo, projectName,
                                                       connectionURL),
               pubDate |-> nowToUTCString(now),
               guid |-> "figma-project-" \o node.id \o "-" \o dateNow(now),
               category |-> "Design"]]

\* node.interactions.forEach(...)
figmaInteractions(siteInfo, node, now) ==
    [k \in 1..Len(node.interactions) |->
        interactionItem(siteInfo, node, now, node.interactions[k],
            replaceFirst(replaceFirst(node.interactions[k], "/", ""),
                         "-", " "))]

\* the text branch of the walk for a node whose trimmed characters are txt
textItem(siteInfo, node, now, txt) ==
    [keep |-> /\ node.type = "TEXT"
              /\ node.characters # ""
              /\ Len(txt) > MinFigmaText
              /\ Len(txt) < MaxFigmaText
              /\ \E w \in {"design", "project", "developed", "led"} :
                    includes(toLowerCase(txt), w),
     key  |-> "text-" \o SubSeq(txt, 1, IF Len(txt) < TextKeyLength
                                        THEN Len(txt) ELSE TextKeyLength),
     rec  |-> [title |->
                  trim(newlinesToSpaces(
                      IF Len(txt) > MaxFigmaTitle
                      THEN SubSeq(txt, 1, MaxFigmaTitle - 3) \o "..."
                      ELSE txt)),
               link |-> siteInfo.url,
               description |-> trim(newlinesToSpaces(txt)),
               content |-> "<p>" \o newlinesToParagraphs(txt) \o "</p>",
               pubDate |-> nowToUTCString(now),
               guid |-> "figma-text-" \o node.id \o "-" \o dateNow(now),
               category |-> "Design"]]

figmaText(siteInfo, node, now) ==
    textItem(siteInfo, node, now, trim(node.characters))

\* Object.keys(jsonData.nodeById).forEach(...) for the nodes lo..hi in order
\* (the range is taken in halves): what the walk makes of the interactions
\* and the text of each node
RECURSIVE figmaWalk(_, _, _, _, _)
figmaWalk(siteInfo, nodes, now, lo, hi) ==
    IF lo > hi THEN <<>>
    ELSE IF lo = hi
    THEN figmaInteractions(siteInfo, nodes[lo], now)
            \o <<figmaText(siteInfo, nodes[lo], now)>>
    ELSE figmaWalk(siteInfo, nodes, now, lo, (lo + hi) \div 2)
            \o figmaWalk(siteInfo, nodes, now, (lo + hi) \div 2 + 1, hi)

\* the articles pushed before the final return; none when the fetch rejects,
\* the status is not ok or the payload is malformed (the catch block)
figmaArticles(siteInfo, now, response) ==
    IF response.kind = "ok" /\ response.data.hasNodeById
    THEN pushedOf(figmaWalk(siteInfo, response.data.nodes, now, 1,
                            Len(response.data.nodes)))
    ELSE <<>>

\* the return, had it not fallen back to parseGenericContent
figmaReturnOfArticles(siteInfo, page, now, arts) ==
    slice(arts, FigmaMaxArticles)

\* return articles.length > 0 ? articles.slice(0, 10) : parseGenericContent
\* and the return of the catch block, which is reached with no article
figmaReturn(siteInfo, page, now, arts) ==
    IF Len(arts) > 0 THEN slice(arts, FigmaMaxArticles)
    ELSE parseGenericContent(siteInfo, page, now)

\* parseFigmaBasedSite from the point where the fetch has settled
figmaFinish(siteInfo, page, now, response) ==
    figmaReturn(siteInfo, page, now, figmaArticles(siteInfo, now, response))

----------------------------------------------------------------------------
(* Calls of detectSiteType                                                 *)

Fragments ==
    {"wp-content/themes", "wp-includes/js", "Medium",
     "\"@type\":\"NewsArticle\"", "\"@type\":\"Product\"", "Add to cart",
     "Design work"}

DetectPages ==
    [markup       : {m \in SUBSET Fragments : Cardinality(m) <= MaxFragments},
     generator    : {"", "WordPress 6.0"},
     adminBar     : BOOLEAN,
     alWebUrl     : {""},
     ogSiteName   : {"", "GitHub"},
     ogType       : {"", "article"},
     description  : {"", "Designer portfolio"},
     newsNodes    : {0, 6},
     productNodes : {0, 6},
     projectNodes : {0, 3}]

EmptyPage ==
    [markup |-> {}, generator |-> "", adminBar |-> FALSE, alWebUrl |-> "",
     ogSiteName |-> "", ogType |-> "", description |-> "", newsNodes |-> 0,
     productNodes |-> 0, projectNodes |-> 0]

DetectUrls ==
    {"https://a.com", "https://medium.com/@u", "https://u.github.io/blog/",
     "https://www.ruanyifeng.com/blog/"}

DetectIdle ==
    /\ dIn = [html |-> EmptyPage, url |-> ""]
    /\ dOut = [status |-> "none", ran |-> 0,
               siteInfo |-> [url |-> "", type |-> "unknown",
                             platform |-> "unknown", confidence |-> 0,
                             selectors |-> NoSelectors, features |-> <<>>]]

\* one call of detectSiteType(html, url), from entry to return or throw; the
\* detector keeps no state from one call to the next (this.detectors is only
\* read), so a behaviour is one call
DetectSiteType ==
    /\ dOut.status = "none"
    /\ \E html \in DetectPages, url \in DetectUrls :
          /\ dIn' = [html |-> html, url |-> url]
          /\ dOut' = detectSiteType(html, url)
    /\ UNCHANGED <<resolveVars, parseVars, utilVars, handlerVars, cacheVars>>

----------------------------------------------------------------------------
(* Calls of resolveUrl                                                     *)

SiteUrls == {"https://a.com", "https://a.com/blog/", "http://b.org/p?x=1"}

RefPrefixes ==
    {"", "/", "//", "http://", "https://", "ftp://", "mailto:", "http", "../"}

RefRests == {"", "x", "c.com/y", "cdn.b.com/x", "post1", "a/b.html"}

Refs == {p \o r : p \in RefPrefixes, r \in RefRests}

ResolveIdle ==
    /\ rIn = [siteUrl |-> "", url |-> ""]
    /\ rOut = ""

\* one call of resolveUrl(url) on a ContentParser built for siteUrl; the
\* function reads this.siteInfo.url and this.baseUrl and writes nothing
ResolveUrl ==
    /\ rIn.siteUrl = ""
    /\ \E siteUrl \in SiteUrls, url \in Refs :
          /\ rIn' = [siteUrl |-> siteUrl, url |-> url]
          /\ rOut' = resolveUrl(siteUrl, url)
    /\ UNCHANGED <<detectVars, parseVars, utilVars, handlerVars, cacheVars>>

----------------------------------------------------------------------------
(* Calls of parseContent                                                   *)

\* what the constructor's caller passes: a detector's result for url
infoFrom(url, result) ==
    objectAssign([url |-> url, type |-> "unknown", platform |-> "unknown",
                  confidence |-> 0, selectors |-> NoSelectors,
                  features |-> <<>>], result)

PageUrl == "https://a.com/blog/"

WordPressPage ==
    [EmptyPage EXCEPT !.markup = {"wp-content/themes"},
                      !.generator = "WordPress 6.0"]

\* no detector names the platform movable-type: a siteInfo of that platform
\* is written by the caller, here with the generic selectors
MovableTypeInfo ==
    [infoFrom(PageUrl, detectGeneric(EmptyPage, PageUrl))
        EXCEPT !.type = "blog", !.platform = "movable-type"]

ParserInfos ==
    {infoFrom(PageUrl, detectWordPress(WordPressPage, PageUrl)),
     infoFrom(PageUrl, detectWordPress(
                  [EmptyPage EXCEPT !.generator = "WordPress 6.0"], PageUrl)),
     infoFrom(PageUrl, detectNews(
                  [EmptyPage EXCEPT !.markup = {"\"@type\":\"NewsArticle\""}],
                  PageUrl)),
     infoFrom(PageUrl, detectECommerce(
                  [EmptyPage EXCEPT !.markup = {"\"@type\":\"Product\""}],
                  PageUrl)),
     infoFrom("https://u.github.io/blog/",
              detectGitHub([EmptyPage EXCEPT !.ogSiteName = "GitHub"],
                           "https://u.github.io/blog/")),
     infoFrom(PageUrl, detectPortfolio(
                  [EmptyPage EXCEPT !.description = "Designer portfolio"],
                  PageUrl)),
     infoFrom(PageUrl, detectGeneric(EmptyPage, PageUrl)),
     MovableTypeInfo}

kid(tag, cls, in, txt, href, datetime, src) ==
    [tag |-> tag, cls |-> cls, id |-> "", in |-> in, text |-> txt,
     href |-> href, datetime |-> datetime, src |-> src]

\* the element names of each kind of node
Kinds ==
       "post"    :> [tag |-> "article", cls |-> {"post"}, titleTag |-> "h2",
                     titleCls |-> {"entry-title"},
                     contentCls |-> {"entry-content", "content"},
                     dateCls |-> {"published"}]
    @@ "product" :> [tag |-> "div", cls |-> {"product", "item"},
                     titleTag |-> "h2", titleCls |-> {"product-title"},
                     contentCls |-> {"description"}, dateCls |-> {"date"}]
    @@ "project" :> [tag |-> "div", cls |-> {"project"}, titleTag |-> "h3",
                     titleCls |-> {"project-title"},
                     contentCls |-> {"description"}, dateCls |-> {"date"}]
    @@ "commit"  :> [tag |-> "div", cls |-> {"commit"}, titleTag |-> "p",
                     titleCls |-> {"commit-title"},
                     contentCls |-> {"commit-desc"}, dateCls |-> {"date"}]
    @@ "entry"   :> [tag |-> "div", cls |-> {"entry-asset"},
                     titleTag |-> "h2",
                     titleCls |-> {"asset-name", "entry-title"},
                     contentCls |-> {"asset-content"},
                     dateCls |-> {"asset-date"}]

\* <tag class=cls>
\*   <titleTag class=titleCls><a href=href>title</a></titleTag>
\*   <div class=contentCls>Body of the item</div>
\*   <time class=dateCls datetime=date>date</time>
\* </tag>
\* without the title element when title = "", the anchor when href = "", the
\* time element when date = "", the datetime attribute when date is no date
mkNode(kind, title, href, date) ==
    LET K == Kinds[kind]
        titlePart ==
            IF title = ""
            THEN IF href = "" THEN <<>>
                 ELSE <<kid("a", {}, 0, "", href, "", "")>>
            ELSE IF href = ""
                 THEN <<kid(K.titleTag, K.titleCls, 0, title, "", "", "")>>
                 ELSE <<kid(K.titleTag, K.titleCls, 0, "", "", "", ""),
                        kid("a", {}, 1, title, href, "", "")>>
        contentPart ==
            <<kid("div", K.contentCls, 0, "Body of the item", "", "", "")>>
        datePart ==
            IF date = "" THEN <<>>
            ELSE <<kid("time", K.dateCls, 0, date, "",
                       IF date \in DOMAIN KnownDates THEN date ELSE "", "")>>
    IN  [tag |-> K.tag, cls |-> K.cls, id |-> "", within |-> "",
         kids |-> titlePart \o contentPart \o datePart]

\* inside <div id="homepage">:
\* <li class="module-list-item"><a href=href>title</a><span>date >></span></li>
\* without the anchor when title and href are "", the span when date is ""
mkRecent(title, href, date) ==
    [tag |-> "li", cls |-> {"module-list-item"}, id |-> "",
     within |-> "homepage",
     kids |-> (IF title = "" /\ href = "" THEN <<>>
               ELSE <<kid("a", {}, 0, title, href, "", "")>>)
              \o (IF date = "" THEN <<>>
                  ELSE <<kid("span", {}, 0, date \o " >>", "", "", "")>>)]

BaseTitle == "Hello World"
BaseHref == "/post1"
BaseDate == "2024-09-25"

Titles == {"      ", "", "  abcd  "}
Hrefs == {"", "http.html", "/post2"}
Dates == {"", "soon"}

\* a node of kind with the given title, href and date
nodeOf(kind, t, h, d) ==
    IF kind = "recent" THEN mkRecent(t, h, d) ELSE mkNode(kind, t, h, d)

BaseNode(kind) == nodeOf(kind, BaseTitle, BaseHref, BaseDate)

\* the nodes of one kind that differ from the base node in one of title,
\* href and date
OddNodes(kind) ==
    {nodeOf(kind, t, BaseHref, BaseDate) : t \in Titles}
      \cup {nodeOf(kind, BaseTitle, h, BaseDate) : h \in Hrefs}
      \cup {nodeOf(kind, BaseTitle, BaseHref, d) : d \in Dates}

\* the kinds of node on the pages given to a parser for siteInfo
KindsFor(siteInfo) ==
    CASE siteInfo.platform = "movable-type" -> {"entry", "recent", "post"}
      [] siteInfo.type = "ecommerce"  -> {"product"}
      [] siteInfo.type = "portfolio"  -> {"project"}
      [] siteInfo.type = "repository" -> {"commit"}
      [] OTHER                        -> {"post"}

\* the kind whose nodes a parser for siteInfo is given in every variation
MainKinds(siteInfo) ==
    IF siteInfo.platform = "movable-type" THEN {"entry", "recent"}
    ELSE KindsFor(siteInfo)

BaseNodes(siteInfo) == {BaseNode(k) : k \in KindsFor(siteInfo)}

NodePool(siteInfo) ==
    BaseNodes(siteInfo) \cup UNION {OddNodes(k) : k \in MainKinds(siteInfo)}

\* a crowded page: one node more than the cap on the number of articles,
\* each with a link of its own
Crowded(kind) ==
    [k \in 1..(MaxArticles + 1) |->
        nodeOf(kind, BaseTitle, "/p" \o ToString(k), BaseDate)]

\* pages of up to MaxNodes nodes, at most one of them not a base node, and
\* a crowded page
PagesFor(siteInfo) ==
    UNION {{p \in [1..n -> NodePool(siteInfo)] :
              Cardinality({k \in 1..n : p[k] \notin BaseNodes(siteInfo)}) <= 1}
           : n \in 0..MaxNodes}
      \cup {Crowded(IF siteInfo.platform = "movable-type" THEN "recent"
                     ELSE CHOOSE k \in KindsFor(siteInfo) : TRUE)}

PreloadLink == "<link rel=\"preload\" href=\"/_json/site.json\" as=\"fetch\">"

MarkupsFor(siteInfo) ==
    IF siteInfo.type = "portfolio"
    THEN {{}, {PreloadLink}, {"load('_json/site.json')"}}
    ELSE {{}}

DocsFor(siteInfo) ==
    [markup : MarkupsFor(siteInfo), nodes : PagesFor(siteInfo)]

figmaNode(id, interactions, type, characters) ==
    [id |-> id, interactions |-> interactions, type |-> type,
     characters |-> characters]

JsonDatas ==
    {[hasNodeById |-> FALSE, nodes |-> <<>>],
     [hasNodeById |-> TRUE,
      nodes |-> <<figmaNode("1:2", <<"/work-a">>, "FRAME", ""),
                  figmaNode("1:3", <<>>, "TEXT",
                            "Led the design of the new product experience"),
                  figmaNode("1:4", <<"/work-a", "https://x.com">>, "FRAME",
                            "")>>],
     [hasNodeById |-> TRUE,
      nodes |-> <<figmaNode("2:1", <<"/alpha", "/beta">>, "FRAME", "")>>],
     [hasNodeById |-> TRUE,
      nodes |-> <<figmaNode("3:1", <<"", "/">>, "TEXT", "Design")>>],
     [hasNodeById |-> TRUE,
      nodes |-> [k \in 1..(FigmaMaxArticles + 1) |->
                    figmaNode("4:" \o ToString(k), <<"/p" \o ToString(k)>>,
                              "FRAME", "")]]}

NoData == [hasNodeById |-> FALSE, nodes |-> <<>>]

JsonResponses ==
    {[kind |-> k, data |-> NoData] : k \in {"error", "status", "malformed"}}
      \cup {[kind |-> "ok", data |-> d] : d \in JsonDatas}

LongParagraph ==
    "A paragraph of the article that is long enough to count as "
      \o "substantial content of the page, well over the minimum."

ArticleBodies ==
    {[content |-> <<[el |-> "p", val |-> LongParagraph],
                    [el |-> "img", val |-> "/img/a.png"],
                    [el |-> "footer", val |-> "Comments"]>>,
      title |-> "Hello World", paragraphs |-> <<LongParagraph>>],
     [content |-> <<[el |-> "p", val |-> "Too short"]>>,
      title |-> "Hello World", paragraphs |-> <<"Too short">>],
     [content |-> <<>>, title |-> "Hello World",
      paragraphs |-> <<LongParagraph, "Email me", LongParagraph>>]}

NoBody == [content |-> <<>>, title |-> "", paragraphs |-> <<>>]

ArticleResponses ==
    {[kind |-> k, body |-> NoBody] : k \in {"error", "status", "ok"}}
      \cup {[kind |-> "ok", body |-> b] : b \in ArticleBodies}

NoWork == [articles |-> <<>>, toFetch |-> <<>>, i |-> 0]

\* no response settled yet
NoResponse == [kind |-> "none", body |-> NoBody]

Offline == [inFlight |-> "", issued |-> 0, timeout |-> 0,
            settled |-> NoResponse]

\* a parser built for one of the infos, given one of the pages, not yet called
ParseInit ==
    /\ pInfo \in ParserInfos
    /\ pDoc \in DocsFor(pInfo)
    /\ clock = 0
    /\ pPc = "idle"
    /\ pWork = NoWork
    /\ net = Offline
    /\ pOut = <<>>
    /\ pPrev = <<>>
    /\ pRuns = 0

\* the parser variables of the specifications that make no call of it
ParseIdle ==
    /\ pInfo = MovableTypeInfo
    /\ pDoc = [markup |-> {}, nodes |-> <<>>]
    /\ clock = 0
    /\ pPc = "idle"
    /\ pWork = NoWork
    /\ net = Offline
    /\ pOut = <<>>
    /\ pPrev = <<>>
    /\ pRuns = 0

IsFigmaCall(siteInfo, doc) ==
    /\ siteInfo.type = "portfolio"
    /\ looksFigma(doc.markup)
    /\ jsonUrlMatch(doc.markup) # ""

IsMovableType(siteInfo) ==
    siteInfo.type = "blog" /\ siteInfo.platform = "movable-type"

\* parseContent when the call makes no network request: the switch on
\* siteInfo.type and the branches of the strategies that return at once
\* (the Movable Type branch of parseBlogContent is parseMovableTypeBlog)
parseContent(siteInfo, doc, now) ==
    CASE siteInfo.type = "portfolio" ->
            IF looksFigma(doc.markup)
            THEN parseGenericContent(siteInfo, doc.nodes, now)
            ELSE parseStandardPortfolio(siteInfo, doc.nodes, now)
      [] siteInfo.type = "blog" ->
            parseBlogContent(siteInfo, doc.nodes, now)
      [] siteInfo.type = "news" ->
            parseNewsContent(siteInfo, doc.nodes, now)
      [] siteInfo.type = "ecommerce" ->
            parseECommerceContent(siteInfo, doc.nodes, now)
      [] siteInfo.type = "repository" ->
            parseRepositoryContent(siteInfo, doc.nodes, now)
      [] OTHER -> parseGenericContent(siteInfo, doc.nodes, now)

\* parseFigmaBasedSite up to its await of fetch(jsonUrl), jsonUrlMatch[1]
\* being path
fetchJson(path) ==
    /\ pPc' = "awaitJson"
    /\ net' = [inFlight |-> origin(pInfo.url) \o path, issued |-> 1,
               timeout |-> 0, settled |-> NoResponse]
    /\ UNCHANGED <<pWork, pOut>>

\* the loop of parseMovableTypeBlog up to its first await, todo being
\* articlesToFetch; with nothing to fetch the function returns at once
fetchFirst(arts, todo) ==
    IF todo = <<>>
    THEN /\ pPc' = "done"
         /\ pOut' = mtReturn(arts)
         /\ net' = Offline
         /\ UNCHANGED pWork
    ELSE /\ pPc' = "awaitArticle"
         /\ pWork' = [articles |-> arts, toFetch |-> todo, i |-> 1]
         /\ net' = [inFlight |-> arts[todo[1]].link, issued |-> 1,
                    timeout |-> ArticleTimeout, settled |-> NoResponse]
         /\ UNCHANGED pOut

parseMovableTypeBlog(arts) == fetchFirst(arts, articlesToFetch(arts))

\* a call of parseContent(html), up to its return or its first await; the
\* caller repeats a call only when the call before it made no request, so
\* that a repeated call is given what the first was given
ParseContent ==
    /\ pPc \in {"idle", "done"}
    /\ pRuns < MaxRuns
    /\ net.issued = 0
    /\ pRuns' = pRuns + 1
    /\ pPrev' = pOut
    /\ IF IsFigmaCall(pInfo, pDoc)
       THEN fetchJson(jsonUrlMatch(pDoc.markup))
       ELSE IF IsMovableType(pInfo)
       THEN parseMovableTypeBlog(mtCandidates(pInfo, pDoc.nodes, clock))
       ELSE /\ pPc' = "done"
            /\ pOut' = parseContent(pInfo, pDoc, clock)
            /\ net' = Offline
            /\ UNCHANGED pWork
    /\ UNCHANGED <<pInfo, pDoc, clock, detectVars, resolveVars, utilVars,
                   handlerVars, cacheVars>>

\* the fetch of the JSON resource settles and parseFigmaBasedSite runs on
JsonResponse ==
    /\ pPc = "awaitJson"
    /\ pPc' = "done"
    /\ \E response \in JsonResponses :
          /\ pOut' = figmaFinish(pInfo, pDoc.nodes, clock, response)
          /\ net' = [net EXCEPT !.inFlight = "",
                                !.settled = [kind |-> response.kind,
                                             body |-> NoBody]]
    /\ UNCHANGED <<pInfo, pDoc, clock, pWork, pPrev, pRuns, detectVars,
                   resolveVars, utilVars, handlerVars, cacheVars>>

\* the fetch of article i settles; the loop takes the next article or ends
ArticleResponse ==
    /\ pPc = "awaitArticle"
    /\ \E response \in ArticleResponses :
          LET i    == pWork.i
              arts == [pWork.articles EXCEPT ![pWork.toFetch[i]] =
                          withFullContent(@,
                              fetchRuanyifengArticleContent(response))]
          IN  IF i < Len(pWork.toFetch)
              THEN /\ pWork' = [pWork EXCEPT !.articles = arts, !.i = i + 1]
                   /\ net' = [net EXCEPT
                                 !.inFlight = arts[pWork.toFetch[i + 1]].link,
                                 !.issued = @ + 1,
                                 !.settled = response]
                   /\ UNCHANGED <<pPc, pOut>>
              ELSE /\ pWork' = NoWork
                   /\ net' = [net EXCEPT !.inFlight = "",
                                         !.settled = response]
                   /\ pPc' = "done"
                   /\ pOut' = mtReturn(arts)
    /\ UNCHANGED <<pInfo, pDoc, clock, pPrev, pRuns, detectVars, resolveVars,
                   utilVars, handlerVars, cacheVars>>

\* time passes
Tick ==
    /\ clock < MaxClock
    /\ clock' = clock + 1
    /\ UNCHANGED <<pInfo, pDoc, pPc, pWork, net, pOut, pPrev, pRuns,
                   detectVars, resolveVars, utilVars, handlerVars, cacheVars>>

----------------------------------------------------------------------------
(* Calls of generateSummary and generateGuid                               *)

SummaryPieces ==
    {"", "a", "abc def", "a    b", "  abcdefgh  ", "abcdefghij", "a\n\nb c",
     "      ", "\t x"}

SummaryTexts == {p \o q : p, q \in SummaryPieces}

SummaryLengths == {0, 1, 3, 5, 8, 200}

GuidSeeds ==
    {"test-article", "different-article", "", "https://example.com/a",
     "a^", "a~", "a|", "^", "~"}

GuidUrls == {"https://example.com", "https://a.com/blog/"}

NoCall == [op |-> "none", text |-> "", maxLength |-> 0, siteUrl |-> ""]

UtilIdle ==
    /\ uIn = NoCall
    /\ uOut = ""

\* one call of generateSummary(text, maxLength); the function reads and
\* writes nothing of the parser
GenerateSummary ==
    /\ uIn.op = "none"
    /\ \E txt \in SummaryTexts, maxLength \in SummaryLengths :
          /\ uIn' = [op |-> "generateSummary", text |-> txt,
                     maxLength |-> maxLength, siteUrl |-> ""]
          /\ uOut' = generateSummary(txt, maxLength)
    /\ UNCHANGED <<detectVars, resolveVars, parseVars, handlerVars, cacheVars>>

\* one call of generateGuid(identifier) on a parser built for siteUrl; the
\* function reads this.siteInfo.url and writes nothing
GenerateGuid ==
    /\ uIn.op = "none"
    /\ \E seed \in GuidSeeds, siteUrl \in GuidUrls :
          /\ uIn' = [op |-> "generateGuid", text |-> seed, maxLength |-> 0,
                     siteUrl |-> siteUrl]
          /\ uOut' = generateGuid([url |-> siteUrl], seed)
    /\ UNCHANGED <<detectVars, resolveVars, parseVars, handlerVars, cacheVars>>

----------------------------------------------------------------------------
(* CacheManager: four LRU stores keyed by the normalized URL               *)
(*                                                                         *)
(* A store is a function from the keys it holds to entries                 *)
(*   [age, since, value]                                                   *)
(* with age the quarters of an hour since the entry was set or last        *)
(* refreshed by a get, and since the quarters of an hour since it was set  *)
(* (Date.now() - timestamp, counted up to MaxSince).                       *)

\* the ttl of the stores, in quarters of an hour
rssTtl == 2
siteInfoTtl == 4
htmlTtl == 1
errorTtl == 4

\* new URL(url) does not throw; the URLs of the model are http(s) URLs with
\* a lower-case host and a path, or no URLs at all
parsesAsUrl(url) == startsWith(url, "http://") \/ startsWith(url, "https://")

paramsToRemove == {"utm_source", "utm_medium", "utm_campaign", "fbclid"}

paramName(p) ==
    LET e == indexOf(p, "=", 1)
    IN  IF e = 0 THEN p ELSE SubSeq(p, 1, e - 1)

RECURSIVE joinParams(_)
joinParams(ps) ==
    IF Len(ps) = 1 THEN ps[1] ELSE ps[1] \o "&" \o joinParams(Tail(ps))

\* normalizeUrl without the lower-casing
normalizeUrlKeepingCase(url) ==
    IF ~parsesAsUrl(url) THEN url
    ELSE LET h      == indexOf(url, "#", 1)
             noHash == IF h = 0 THEN url ELSE SubSeq(url, 1, h - 1)
             q      == indexOf(noHash, "?", 1)
             path   == IF q = 0 THEN noHash ELSE SubSeq(noHash, 1, q - 1)
             params == IF q = 0 \/ q = Len(noHash) THEN <<>>
                       ELSE split(SubSeq(noHash, q + 1, Len(noHash)), "&")
             kept   == SelectSeq(params,
                                 LAMBDA x : paramName(x) \notin paramsToRemove)
         IN  IF kept = <<>> THEN path ELSE path \o "?" \o joinParams(kept)

normalizeUrl(url) ==
    IF ~parsesAsUrl(url) THEN toLowerCase(url)
    ELSE LET h      == indexOf(url, "#", 1)
             noHash == IF h = 0 THEN url ELSE SubSeq(url, 1, h - 1)
             q      == indexOf(noHash, "?", 1)
             path   == IF q = 0 THEN noHash ELSE SubSeq(noHash, 1, q - 1)
             params == IF q = 0 \/ q = Len(noHash) THEN <<>>
                       ELSE split(SubSeq(noHash, q + 1, Len(noHash)), "&")
             kept   == SelectSeq(params,
                                 LAMBDA x : paramName(x) \notin paramsToRemove)
         IN  toLowerCase(IF kept = <<>> THEN path
                         ELSE path \o "?" \o joinParams(kept))

generateCacheKey(url, type) == type \o ":" \o normalizeUrl(url)

\* cache.has(key): the key is held and its entry is not stale
lruHas(store, key, ttl) == key \in DOMAIN store /\ store[key].age <= ttl

\* the store after cache.delete(key)
lruDelete(store, key) == [k \in DOMAIN store \ {key} |-> store[k]]

\* the store after cache.get(key) with updateAgeOnGet: a stale entry is
\* deleted, a fresh one starts its ttl again
lruGet(store, key, ttl) ==
    IF key \notin DOMAIN store THEN store
    ELSE IF store[key].age > ttl
    THEN lruDelete(store, key)
    ELSE [store EXCEPT ![key].age = 0]

\* the store after cache.set(key, value)
lruSet(store, key, value) ==
    [k \in DOMAIN store \cup {key} |->
        IF k = key THEN [age |-> 0, since |-> 0, value |-> value]
        ELSE store[k]]

\* the store a quarter of an hour later; an entry past its ttl stays stale
lruAged(store, ttl) ==
    [k \in DOMAIN store |->
        [store[k] EXCEPT !.age = IF @ > ttl THEN @ ELSE @ + 1,
                         !.since = IF @ >= MaxSince THEN @ ELSE @ + 1]]


NoStore == <<>>

\* getCachedRSS(url) is not null
hasCachedRSS(cache, url) ==
    lruHas(cache.rss, generateCacheKey(url, "rss"), rssTtl)

\* the manager after getCachedRSS(url)
getCachedRSS(cache, url) ==
    [cache EXCEPT !.rss = lruGet(@, generateCacheKey(url, "rss"), rssTtl)]

cacheRSS(cache, url, content) ==
    [cache EXCEPT !.rss = lruSet(@, generateCacheKey(url, "rss"), content)]

hasCachedSiteInfo(cache, url) ==
    lruHas(cache.siteinfo, generateCacheKey(url, "siteinfo"), siteInfoTtl)

getCachedSiteInfo(cache, url) ==
    [cache EXCEPT
        !.siteinfo = lruGet(@, generateCacheKey(url, "siteinfo"), siteInfoTtl)]

cacheSiteInfo(cache, url, siteInfo) ==
    [cache EXCEPT
        !.siteinfo = lruSet(@, generateCacheKey(url, "siteinfo"), siteInfo)]

hasCachedHTML(cache, url) ==
    lruHas(cache.html, generateCacheKey(url, "html"), htmlTtl)

getCachedHTML(cache, url) ==
    [cache EXCEPT !.html = lruGet(@, generateCacheKey(url, "html"), htmlTtl)]

cacheHTML(cache, url, html) ==
    [cache EXCEPT !.html = lruSet(@, generateCacheKey(url, "html"), html)]

isInErrorCache(cache, url) ==
    lruHas(cache.error, generateCacheKey(url, "error"), errorTtl)

\* addToErrorCache, had it keyed the entry by the url as given
addToErrorCacheAsGiven(cache, url, message) ==
    [cache EXCEPT !.error = lruSet(@, "error:" \o url, message)]

addToErrorCache(cache, url, message) ==
    [cache EXCEPT !.error = lruSet(@, generateCacheKey(url, "error"), message)]

----------------------------------------------------------------------------
(* RSSGenerator: the serializer behind the handler                         *)
(*                                                                         *)
(* A document is [kind, url, message, items]: a feed of so many items for  *)
(* a site, or an error feed labelled with the error's message.             *)

NoContent == [kind |-> "none", url |-> "", message |-> "", items |-> 0]

generateRSS(articles, siteInfo) ==
    [kind |-> "feed", url |-> siteInfo.url, message |-> "",
     items |-> Len(articles)]

generateEmptyRSS(url, siteInfo) ==
    [kind |-> "feed", url |-> url, message |-> "", items |-> 0]

generateErrorRSS(message, url) ==
    [kind |-> "error", url |-> url, message |-> message, items |-> 0]

jsonBody(message) ==
    [kind |-> "json", url |-> "", message |-> message, items |-> 0]

----------------------------------------------------------------------------
(* The generate handler: handler(req, res)                                 *)

corsHeaders ==
       "Access-Control-Allow-Origin" :> "*"
    @@ "Access-Control-Allow-Methods" :> "GET, HEAD, OPTIONS"
    @@ "Access-Control-Allow-Headers" :> "Content-Type"

feedType == "Content-Type" :> "application/rss+xml; charset=utf-8"

\* the response: status 0 while none has been sent; failure names the
\* throw that reached the catch block; did lists the stages the call ran
reply(status, headers, body, failure, did) ==
    [status |-> status, headers |-> headers, body |-> body,
     failure |-> failure, did |-> did]

NoResponseYet(did) == reply(0, corsHeaders, NoContent, "", did)

\* res.send(body), or res.end() for a HEAD request
sent(req, body) == IF req.method = "HEAD" THEN NoContent ELSE body

\* if (!refresh): the query value is a string or absent
truthy(refresh) == refresh # ""

settle(cache, res) == [pc |-> "done", cache |-> cache, res |-> res]

\* the catch block without its call of addToErrorCache
handleErrorUncached(cache, req, message, failure, did) ==
    settle(cache,
           reply(500,
                    corsHeaders @@ feedType
                      @@ "Cache-Control" :> "public, max-age=300"
                      @@ "Content-Length" :> "byteLength(errorRSS)",
                    sent(req, generateErrorRSS(
                                 message,
                                 IF req.url # "" THEN req.url ELSE "unknown")),
                    failure, did))

\* the catch block
handleError(cache, req, message, failure, did) ==
    settle(IF req.url # "" THEN addToErrorCache(cache, req.url, message)
           ELSE cache,
           reply(500,
                    corsHeaders @@ feedType
                      @@ "Cache-Control" :> "public, max-age=300"
                      @@ "Content-Length" :> "byteLength(errorRSS)",
                    sent(req, generateErrorRSS(
                                 message,
                                 IF req.url # "" THEN req.url ELSE "unknown")),
                    failure, did))

\* from the generated document to the response
deliver(cache, req, siteInfo, found, rssXML, valid, did) ==
    IF ~valid
    THEN handleError(cache, req, "Generated RSS XML is invalid", "invalid",
                     did)
    ELSE settle(cacheRSS(cache, req.url, rssXML),
                reply(200,
                         corsHeaders @@ feedType
                           @@ "Cache-Control" :> "public, max-age=1800"
                           @@ "X-Cache" :> "MISS"
                           @@ "X-Site-Type" :>
                                 (siteInfo.type \o "/" \o siteInfo.platform)
                           @@ "X-Articles-Found" :> ToString(found)
                           @@ "Content-Length" :> "byteLength(rssXML)",
                         sent(req, rssXML), "", did))

\* from the classification to the generated document; valid is what
\* validateRSS answers for it
generate(cache, req, siteInfo, articles, valid, did) ==
    deliver(cache, req, siteInfo, Len(articles),
            IF Len(articles) > 0 THEN generateRSS(articles, siteInfo)
            ELSE generateEmptyRSS(req.url, siteInfo),
            valid, did \cup {"parse", "generate"})

\* from the page in hand to the classification: the cached one unless the
\* request asks for a refresh, else the one detectSiteType returns
classify(cache, req, page, detected, valid, did) ==
    IF hasCachedSiteInfo(cache, req.url) /\ ~truthy(req.refresh)
    THEN generate(getCachedSiteInfo(cache, req.url), req,
                  cache.siteinfo[generateCacheKey(req.url, "siteinfo")].value,
                  parseContent(
                     cache.siteinfo[generateCacheKey(req.url, "siteinfo")].value,
                     page.doc, 0),
                  valid, did)
    ELSE IF detected.status = "threw"
    THEN handleError(getCachedSiteInfo(cache, req.url), req,
                     "Cannot read properties of undefined", "classify",
                     did \cup {"classify"})
    ELSE generate(cacheSiteInfo(getCachedSiteInfo(cache, req.url), req.url,
                                detected.siteInfo),
                  req, detected.siteInfo,
                  parseContent(detected.siteInfo, page.doc, 0),
                  valid, did \cup {"classify"})

\* the handler from its entry to the response or to the await of fetch(url)
entry(cache, req, valid) ==
    IF req.method = "OPTIONS"
    THEN settle(cache, reply(200, corsHeaders, NoContent, "", {}))
    ELSE IF req.method \notin {"GET", "HEAD"}
    THEN settle(cache, reply(405, corsHeaders,
                                jsonBody("Method not allowed"), "", {}))
    ELSE IF req.url = ""
    THEN settle(cache, reply(400, corsHeaders,
                                jsonBody("Missing URL parameter"), "", {}))
    ELSE IF ~parsesAsUrl(req.url)
    THEN settle(cache, reply(400, corsHeaders,
                                jsonBody("Invalid URL format"), "", {}))
    ELSE IF isInErrorCache(cache, req.url)
    THEN settle(cache,
                reply(200,
                         corsHeaders @@ feedType
                           @@ "Cache-Control" :> "public, max-age=300",
                         sent(req, generateErrorRSS(
                            "URL temporarily unavailable due to previous errors",
                            req.url)),
                         "", {}))
    ELSE IF ~truthy(req.refresh) /\ hasCachedRSS(cache, req.url)
    THEN settle(getCachedRSS(cache, req.url),
                reply(200,
                         corsHeaders @@ feedType
                           @@ "Cache-Control" :> "public, max-age=1800"
                           @@ "X-Cache" :> "HIT"
                           @@ "Content-Length" :> "byteLength(cachedRSS)",
                         sent(req, cache.rss[generateCacheKey(req.url,
                                                              "rss")].value),
                         "", {}))
    ELSE IF hasCachedHTML(cache, req.url) /\ ~truthy(req.refresh)
    THEN classify(getCachedHTML(
                     IF truthy(req.refresh) THEN cache
                     ELSE getCachedRSS(cache, req.url), req.url),
                  req,
                  cache.html[generateCacheKey(req.url, "html")].value,
                  detectSiteType(
                     cache.html[generateCacheKey(req.url, "html")].value.html,
                     req.url),
                  valid, {})
    ELSE [pc |-> "awaitHtml",
          cache |-> getCachedHTML(IF truthy(req.refresh) THEN cache
                                  ELSE getCachedRSS(cache, req.url), req.url),
          res |-> NoResponseYet({"fetch"})]

\* the handler from the settling of fetch(url) to the response
resume(cache, req, fetched, valid, did) ==
    IF fetched.kind = "error"
    THEN handleError(cache, req, "request to the site failed", "fetch", did)
    ELSE IF fetched.kind = "status"
    THEN handleError(cache, req, "HTTP 404: Not Found", "status", did)
    ELSE classify(cacheHTML(cache, req.url, fetched.page), req, fetched.page,
                  detectSiteType(fetched.page.html, req.url), valid, did)

Methods == {"GET", "HEAD", "OPTIONS", "POST"}

\* the url of the query: absent, no URL, and two spellings of one page
QueryUrls ==
    {"", "not a url", "https://a.com/Blog?utm_source=x#top",
     "https://a.com/blog"}

Refreshes == {"", "1"}

NoPage == [html |-> EmptyPage, doc |-> [markup |-> {}, nodes |-> <<>>]]

\* what the site serves: the page of the WordPress test, or an empty page
SitePages ==
    {[html |-> [EmptyPage EXCEPT !.generator = "WordPress 6.0"],
      doc |-> [markup |-> {}, nodes |-> <<BaseNode("post")>>]],
     NoPage}

\* how fetch(url) settles: rejected, a response that is not ok, or a page
HtmlResponses ==
    {[kind |-> "error", page |-> NoPage], [kind |-> "status", page |-> NoPage]}
      \cup {[kind |-> "ok", page |-> p] : p \in SitePages}

\* no call made on the manager from outside, and no result of one
NoCacheCall == [op |-> "none", url |-> "", content |-> NoContent]

NoResult == [hit |-> FALSE, content |-> NoContent, since |-> 0]

NoRequest == [method |-> "", url |-> "", refresh |-> ""]

\* the module is loaded: the manager is new and no request has come
HandlerIdle ==
    /\ hReq = NoRequest
    /\ hRes = NoResponseYet({})
    /\ hPc = "idle"
    /\ hCache = [rss |-> NoStore, siteinfo |-> NoStore, html |-> NoStore,
                 error |-> NoStore]

\* a request arrives and the handler runs to its response or to the await of
\* the upstream fetch; one request is served at a time
Request ==
    /\ hPc \in {"idle", "done"}
    /\ \E method \in Methods, url \in QueryUrls, refresh \in Refreshes,
          valid \in (IF hCache.html = NoStore THEN {TRUE} ELSE BOOLEAN) :
          LET req == [method |-> method, url |-> url, refresh |-> refresh]
              out == entry(hCache, req, valid)
          IN  /\ hReq' = req
              /\ hPc' = out.pc
              /\ hCache' = out.cache
              /\ hRes' = out.res
    /\ UNCHANGED <<detectVars, resolveVars, parseVars, utilVars, cacheVars>>

\* the upstream fetch settles (within its timeout of 15 s) and the handler
\* runs to its response
HtmlResponse ==
    /\ hPc = "awaitHtml"
    /\ \E fetched \in HtmlResponses, valid \in BOOLEAN :
          LET out == resume(hCache, hReq, fetched, valid, hRes.did)
          IN  /\ hPc' = out.pc
              /\ hCache' = out.cache
              /\ hRes' = out.res
    /\ UNCHANGED <<hReq, detectVars, resolveVars, parseVars, utilVars,
                   cacheVars>>

\* a quarter of an hour passes between two requests, or since the last call
\* made on the manager
Elapse ==
    /\ hPc \in {"idle", "done"}
    /\ hPc' = "idle"
    /\ hCache' = [rss |-> lruAged(hCache.rss, rssTtl),
                  siteinfo |-> lruAged(hCache.siteinfo, siteInfoTtl),
                  html |-> lruAged(hCache.html, htmlTtl),
                  error |-> lruAged(hCache.error, errorTtl)]
    /\ cIn' = NoCacheCall
    /\ cOut' = NoResult
    /\ UNCHANGED <<hReq, hRes, detectVars, resolveVars, parseVars, utilVars>>

----------------------------------------------------------------------------
(* Calls made on a CacheManager from outside, as the test suite makes them *)

clearCache(cache, url) ==
    [rss |-> lruDelete(cache.rss, generateCacheKey(url, "rss")),
     siteinfo |-> lruDelete(cache.siteinfo, generateCacheKey(url, "siteinfo")),
     html |-> lruDelete(cache.html, generateCacheKey(url, "html")),
     error |-> lruDelete(cache.error, generateCacheKey(url, "error"))]

clearAllCache(cache) ==
    [rss |-> NoStore, siteinfo |-> NoStore, html |-> NoStore,
     error |-> NoStore]

\* what getCachedRSS(url) returns: null, or {content, cachedAt, hit} with
\* cachedAt given as the time since then
cachedRSS(cache, url) ==
    IF hasCachedRSS(cache, url)
    THEN [hit |-> TRUE,
          content |-> cache.rss[generateCacheKey(url, "rss")].value,
          since |-> cache.rss[generateCacheKey(url, "rss")].since]
    ELSE [hit |-> FALSE, content |-> NoContent, since |-> 0]

\* the urls cached: a page, and the page with a tracking parameter
StoredUrls == {"https://a.com/blog", "https://a.com/blog?utm_source=x"}

\* the urls looked up: the page in four spellings (its fragment, a tracking
\* parameter and the case of its letters differ), and another page
CacheUrls ==
    StoredUrls
      \cup {"https://a.com/blog#top", "https://a.com/Blog",
            "https://a.com/blog?page=2&fbclid=y"}

CacheContents ==
    {generateEmptyRSS("https://a.com/blog", [type |-> "blog"]),
     generateErrorRSS("Test error", "https://a.com/blog")}

CacheIdle ==
    /\ cIn = NoCacheCall
    /\ cOut = NoResult

called(op, url) ==
    /\ cIn' = [op |-> op, url |-> url, content |-> NoContent]
    /\ UNCHANGED <<hReq, hRes, hPc, detectVars, resolveVars, parseVars,
                   utilVars>>

CacheRSS ==
    \E url \in StoredUrls, content \in CacheContents :
        /\ hCache' = cacheRSS(hCache, url, content)
        /\ cOut' = NoResult
        /\ cIn' = [op |-> "cacheRSS", url |-> url, content |-> content]
        /\ UNCHANGED <<hReq, hRes, hPc, detectVars, resolveVars, parseVars,
                       utilVars>>

GetCachedRSS ==
    \E url \in CacheUrls :
        /\ hCache' = getCachedRSS(hCache, url)
        /\ cOut' = cachedRSS(hCache, url)
        /\ called("getCachedRSS", url)

AddToErrorCache ==
    \E url \in StoredUrls :
        /\ hCache' = addToErrorCache(hCache, url, "Test error")
        /\ cOut' = NoResult
        /\ called("addToErrorCache", url)

IsInErrorCache ==
    \E url \in CacheUrls :
        /\ hCache' = hCache
        /\ cOut' = [NoResult EXCEPT !.hit = isInErrorCache(hCache, url)]
        /\ called("isInErrorCache", url)

ClearCache ==
    \E url \in CacheUrls :
        /\ hCache' = clearCache(hCache, url)
        /\ cOut' = NoResult
        /\ called("clearCache", url)

ClearAllCache ==
    /\ hCache' = clearAllCache(hCache)
    /\ cOut' = NoResult
    /\ called("clearAllCache", "")

\* keys the model leaves out fill a store to its max, and the entry of the
\* store used least recently is dropped; the stores of the model hold fewer
\* keys than their max, so a set of one of their keys evicts nothing
Evict ==
    /\ \E name \in {"rss", "error"} :
          \E key \in DOMAIN hCache[name] :
             hCache' = [hCache EXCEPT ![name] = lruDelete(@, key)]
    /\ cOut' = NoResult
    /\ called("evicted", "")

----------------------------------------------------------------------------
(* Specifications                                                          *)

Init ==
    DetectIdle /\ ResolveIdle /\ ParseIdle /\ UtilIdle /\ HandlerIdle
      /\ CacheIdle

NextDetect == DetectSiteType

SpecDetect == Init /\ [][NextDetect]_vars

NextResolve == ResolveUrl

SpecResolve == Init /\ [][NextResolve]_vars

InitParse ==
    DetectIdle /\ ResolveIdle /\ ParseInit /\ UtilIdle /\ HandlerIdle
      /\ CacheIdle

NextParse == ParseContent \/ JsonResponse \/ ArticleResponse \/ Tick

SpecParse == InitParse /\ [][NextParse]_vars

\* a fetch that was given a timeout settles, by a response or by the
\* timeout; a fetch without one settles only if the server answers
TimedFetchSettles == net.timeout > 0 /\ (JsonResponse \/ ArticleResponse)

SpecParseFair == SpecParse /\ WF_vars(TimedFetchSettles)

NextUtil == GenerateSummary \/ GenerateGuid

SpecUtil == Init /\ [][NextUtil]_vars

NextHandler == Request \/ HtmlResponse \/ Elapse

SpecHandler == Init /\ [][NextHandler]_vars

NextCache ==
    \/ CacheRSS \/ GetCachedRSS \/ AddToErrorCache \/ IsInErrorCache
    \/ ClearCache \/ ClearAllCache \/ Evict \/ Elapse

SpecCache == Init /\ [][NextCache]_vars

----------------------------------------------------------------------------
(* Classification claims                                                   *)

DetectCalled == dOut.status # "none"

\* the detectors of the list that are methods of the class
DefinedDetectors == {i \in 1..Len(detectors) : detectors[i] \in SiteDetectorMethods}

ConfidenceOf(i) == callDetector(detectors[i], dIn.html, dIn.url).confidence

\* C1: every call of detectSiteType runs all registered detectors without
\* raising and returns a result; when no archetype detector scores above 10
\* the result is the generic fallback's, with confidence 10.
C1_ClassifyNeverFails ==
    DetectCalled =>
        /\ dOut.status = "returned"
        /\ dOut.ran = Len(detectors)
        /\ (\A i \in DefinedDetectors \ {Len(detectors)} : ConfidenceOf(i) <= 10)
              => /\ dOut.siteInfo.type = "generic"
                 /\ dOut.siteInfo.confidence = 10

\* C2: the returned confidence is the maximum over the detectors, and type and
\* platform are those of the earliest registered detector attaining it.
C2_EarliestMaximumWins ==
    DetectCalled =>
        /\ dOut.status = "returned"
        /\ \E i \in DefinedDetectors :
              LET r == callDetector(detectors[i], dIn.html, dIn.url)
              IN  /\ \A j \in DefinedDetectors : ConfidenceOf(j) <= r.confidence
                  /\ \A j \in DefinedDetectors :
                        j < i => ConfidenceOf(j) < r.confidence
                  /\ dOut.siteInfo.confidence = r.confidence
                  /\ dOut.siteInfo.type = r.type
                  /\ dOut.siteInfo.platform = r.platform

\* C3: every call of detectSiteType returns a result whose selectors map is
\* not empty.
C3_SelectorsNeverEmpty ==
    DetectCalled =>
        /\ dOut.status = "returned"
        /\ DOMAIN dOut.siteInfo.selectors # {}

----------------------------------------------------------------------------
(* URL resolution claims                                                   *)

\* an absolute URL: a scheme of letters, then ":"
IsAbsoluteUrl(u) ==
    \E i \in 2..Len(u) :
        /\ charAt(u, i) = ":"
        /\ \A j \in 1..(i - 1) : charAt(u, j) \in AsciiLower

ResolveCalled == rIn.siteUrl # ""

\* C10: resolveUrl has exactly four cases: "//h/p" becomes "https://h/p",
\* "/p" becomes origin + "/p", an absolute URL is returned unchanged, and any
\* other relative "p" becomes origin + "/" + "p".
C10_ResolveFourCases ==
    (ResolveCalled /\ rIn.url # "") =>
        LET url  == rIn.url
            base == origin(rIn.siteUrl)
        IN  rOut = CASE startsWith(url, "//") -> "https:" \o url
                     [] startsWith(url, "/")  -> base \o url
                     [] IsAbsoluteUrl(url)    -> url
                     [] OTHER                 -> base \o "/" \o url

----------------------------------------------------------------------------
(* Extraction claims                                                       *)

\* a call of parseContent has returned and pOut is what it returned
ParseReturned == pPc = "done" /\ pRuns > 0

\* C4: parseContent returns at most 20 records for every site type, and at
\* most 10 records when it took the embedded-JSON path.
C4_RecordCap ==
    ParseReturned =>
        /\ Len(pOut) <= MaxArticles
        /\ IsFigmaCall(pInfo, pDoc) => Len(pOut) <= FigmaMaxArticles

\* C5: when the strategy chosen for the site type produces no record,
\* parseContent returns what the generic strategy gives for the same page;
\* so an empty return means that the generic strategy finds nothing either.
C5_EmptyMeansGenericEmpty ==
    (/\ ParseReturned
     /\ pInfo.type \in {"portfolio", "blog", "news", "ecommerce",
                        "repository"}
     /\ pOut = <<>>) =>
        parseGenericContent(pInfo, pDoc.nodes, clock) = <<>>

\* C6: no two records returned by one call of parseContent have the same
\* guid.
C6_GuidsDistinct ==
    ParseReturned =>
        \A i, j \in 1..Len(pOut) : i # j => pOut[i].guid # pOut[j].guid

\* C7: a second call of parseContent on the same page, given the same
\* responses (here: neither call makes a request), returns what the first
\* call returned, whenever the two calls are made.
C7_RepeatedCallSameResult ==
    (ParseReturned /\ pRuns = 2) => pOut = pPrev

\* C8: every record returned by parseContent has a title that is not empty.
C8_TitlesNotEmpty ==
    ParseReturned => \A k \in 1..Len(pOut) : pOut[k].title # ""

\* C9: the link of every record returned by parseContent is an absolute URL.
C9_LinksAbsolute ==
    ParseReturned => \A k \in 1..Len(pOut) : IsAbsoluteUrl(pOut[k].link)

----------------------------------------------------------------------------
(* Utility claims                                                          *)

SummaryCalled == uIn.op = "generateSummary"

\* C11 as stated: for an input text longer than maxLength, generateSummary
\* returns a string of length maxLength + 3 ending with '...'; for an input
\* at or below maxLength, the whitespace-collapsed, trimmed input
C11_SummaryBoundOfInput ==
    SummaryCalled =>
        IF Len(uIn.text) > uIn.maxLength
        THEN /\ Len(uOut) = uIn.maxLength + 3
             /\ SubSeq(uOut, uIn.maxLength + 1, uIn.maxLength + 3) = "..."
        ELSE uOut = trim(collapseSpace(uIn.text))

\* C11 as amended: the bound is on the whitespace-collapsed, trimmed text:
\* when that text is longer than maxLength the result is its first
\* maxLength characters followed by '...' (length maxLength + 3); otherwise
\* the result is that text, which has no white space at its ends, no white
\* space but blanks, and no two blanks in a row
C11_SummaryBoundOfCleanText ==
    SummaryCalled =>
        LET clean == trim(collapseSpace(uIn.text))
        IN  IF Len(clean) > uIn.maxLength
            THEN /\ Len(uOut) = uIn.maxLength + 3
                 /\ SubSeq(uOut, uIn.maxLength + 1, uIn.maxLength + 3) = "..."
                 /\ SubSeq(uOut, 1, uIn.maxLength)
                       = SubSeq(clean, 1, uIn.maxLength)
            ELSE /\ uOut = clean
                 /\ Len(uOut) <= Len(uIn.text)
                 /\ uOut # "" => /\ ~IsSpace(charAt(uOut, 1))
                                 /\ ~IsSpace(charAt(uOut, Len(uOut)))
                 /\ \A i \in 1..Len(uOut) :
                       /\ charAt(uOut, i) \notin {"\n", "\t"}
                       /\ i > 1 => ~(charAt(uOut, i) = " "
                                      /\ charAt(uOut, i - 1) = " ")

\* a text longer than maxLength whose collapsed form is not, and a text
\* that collapsing shortens and the bound still cuts
C11_ShortenedTextSummarised ==
    /\ SummaryCalled
    /\ uIn.text = "a    b" \o "abcdefghij"
    /\ uIn.maxLength = 5
    /\ uOut = "a bab..."

GuidCalled == uIn.op = "generateGuid"

\* C12: generateGuid returns a value that starts with 'rssos-', and that a
\* call with another seed under the same site URL returns exactly when the
\* other seed is the same seed
C12_GuidPerSeed ==
    GuidCalled =>
        /\ startsWith(uOut, "rssos-")
        /\ \A seed \in GuidSeeds :
              (generateGuid([url |-> uIn.siteUrl], seed) = uOut)
                 <=> (seed = uIn.text)

----------------------------------------------------------------------------
(* Movable Type claims                                                     *)

MovableTypeReturned == ParseReturned /\ IsMovableType(pInfo)

\* what the two loops make of the elements of the page, the entries zone
\* first, before any test on the links seen
ZoneItems ==
    mtEntries(pInfo, pDoc.nodes, clock, select(pDoc.nodes, {".entry-asset"}))
      \o mtRecent(pInfo, pDoc.nodes, clock,
                  select(pDoc.nodes, {"#homepage .module-list-item"}))

KeptItems(items) == {k \in 1..Len(items) : items[k].keep}

\* the title of the first kept item with the link
FirstTitleWithLink(items, kept, link) ==
    items[CHOOSE k \in kept :
            /\ items[k].key = link
            /\ \A j \in kept : items[j].key = link => k <= j].rec.title

OneRecordPerLink(out, items, kept) ==
    /\ \A i, j \in 1..Len(out) : i # j => out[i].link # out[j].link
    /\ \A n \in 1..Len(out) :
          /\ \E k \in kept : items[k].key = out[n].link
          /\ out[n].title = FirstTitleWithLink(items, kept, out[n].link)
    /\ Cardinality({items[k].key : k \in kept}) <= MaxArticles
          => \A k \in kept : \E n \in 1..Len(out) : out[n].link = items[k].key

\* C13: in the Movable Type strategy no two returned records have the same
\* link; the record with a link is the one of the first candidate with that
\* link, the entries zone being scanned first; and, the cap aside, every
\* candidate's link is the link of a record
C13_FirstZoneWins ==
    MovableTypeReturned =>
        OneRecordPerLink(pOut, ZoneItems, KeptItems(ZoneItems))

SharedLinkOnce(out, items, kept) ==
    \E i, j \in kept :
        /\ i < j
        /\ items[i].key = items[j].key
        /\ items[i].rec.title # items[j].rec.title
        /\ Len(out) = 1
        /\ out[1].title = items[i].rec.title

\* an entry and a recent link with the same resolved link: one record, the
\* entry's
C13_SharedLinkReturnedOnce ==
    /\ MovableTypeReturned
    /\ SharedLinkOnce(pOut, ZoneItems, KeptItems(ZoneItems))

\* a secondary fetch that failed: the promise rejected (network error or
\* timeout), the status was not a success, or the page held no markup
FetchFailed(response) ==
    \/ response.kind \in {"error", "status"}
    \/ response.kind = "ok" /\ response.body = NoBody

\* the article the settled fetch was for, before and after the step
RecordKept(before, after) ==
    /\ after.content = before.content
    /\ after.description = before.description
    /\ after.title = before.title
    /\ after.link = before.link

\* C14: when the secondary fetch for a record fails, the record keeps its
\* content and description, the next flagged record is fetched, and after
\* the last one parseContent returns the whole list (capped)
C14_FailedFetchKeepsRecord ==
    [][(pPc = "awaitArticle" /\ net' # net /\ FetchFailed(net'.settled)) =>
          /\ IF pWork.i < Len(pWork.toFetch)
             THEN /\ pPc' = "awaitArticle"
                  /\ net'.issued = net.issued + 1
                  /\ net'.inFlight
                        = pWork.articles[pWork.toFetch[pWork.i + 1]].link
                  /\ Len(pWork'.articles) = Len(pWork.articles)
                  /\ RecordKept(pWork.articles[pWork.toFetch[pWork.i]],
                                pWork'.articles[pWork.toFetch[pWork.i]])
             ELSE /\ pPc' = "done"
                  /\ Len(pOut') = IF Len(pWork.articles) > MaxArticles
                                  THEN MaxArticles ELSE Len(pWork.articles)
                  /\ pWork.toFetch[pWork.i] <= Len(pOut')
                       => RecordKept(pWork.articles[pWork.toFetch[pWork.i]],
                                     pOut'[pWork.toFetch[pWork.i]])]_vars

\* a fetch failed, and the fetch for the next flagged record is in flight
C14_NextFetchedAfterFailure ==
    /\ pPc = "awaitArticle"
    /\ net.settled.kind = "error"
    /\ net.issued = 2
    /\ net.inFlight # ""

----------------------------------------------------------------------------
(* Selector-miss claims                                                    *)

\* a call that went through one of the rule-driven strategies
RuleDrivenReturned ==
    ParseReturned /\ ~IsFigmaCall(pInfo, pDoc) /\ ~IsMovableType(pInfo)

Missing(name) == name \notin DOMAIN pInfo.selectors

\* the value of new Date().toUTCString() at some instant of the model
IsCallTime(d) == \E t \in 0..(MaxClock + 1) : d = nowToUTCString(t)

\* C15: parseContent returns a list for every classification result; a role
\* missing from the selectors map, or an articles selector that matches
\* nothing, yields an empty list, an empty optional field or the default
\* value (the page URL for the link, the time of the call for the date,
\* 'Unknown' for the author)
C15_SelectorMissYieldsDefault ==
    RuleDrivenReturned =>
        /\ Missing("articles") => pOut = <<>>
        /\ select(pDoc.nodes, role(pInfo, "articles")) = <<>> => pOut = <<>>
        /\ \A n \in 1..Len(pOut) :
              /\ Missing("link") => pOut[n].link = pInfo.url
              /\ Missing("date") => IsCallTime(pOut[n].pubDate)
              /\ (Missing("content") /\ "content" \in DOMAIN pOut[n]
                     /\ pInfo.type \notin {"portfolio", "ecommerce"})
                    => pOut[n].content = ""
              /\ (Missing("author") /\ "author" \in DOMAIN pOut[n])
                    => pOut[n].author = "Unknown"
              /\ (Missing("image") /\ "image" \in DOMAIN pOut[n])
                    => pOut[n].image = ""

\* a repository result has no link role: a node with an anchor gives a
\* record whose link is the page URL
C15_LinkRoleMissing ==
    /\ RuleDrivenReturned
    /\ pInfo.type = "repository"
    /\ Missing("link")
    /\ pDoc.nodes = <<BaseNode("commit")>>
    /\ Len(pOut) = 1
    /\ pOut[1].link = pInfo.url

----------------------------------------------------------------------------
(* Claims about the classification of the pages of the test suite          *)

\* the parsed form of the page of the WordPress detection test:
\* <article class="post"><h2 class="entry-title"><a href="/post1">Hello
\* World</a></h2>...</article>; none of its words is a keyword of a detector,
\* so the classified page is the one whose generator is 'WordPress 6.0'
WordPressDoc == [markup |-> {}, nodes |-> <<BaseNode("post")>>]

WordPressTestCall == DetectCalled /\ dIn.html.generator = "WordPress 6.0"

LinkedRecord(r) == r.title # "" /\ includes(r.link, BaseHref)

\* C16: a page whose generator meta is 'WordPress 6.0' and that holds an
\* article node with an entry-title is classified as type blog, platform
\* wordpress, with confidence at least 50, and parseContent under that
\* classification yields a record with a non-empty title and a link
\* containing the anchor's href.
C16_WordPressPageClassifiedAndParsed ==
    WordPressTestCall =>
        /\ dOut.status = "returned"
        /\ dOut.siteInfo.type = "blog"
        /\ dOut.siteInfo.platform = "wordpress"
        /\ dOut.siteInfo.confidence >= 50
        /\ LET out == parseContent(dOut.siteInfo, WordPressDoc, 0)
           IN  \E n \in 1..Len(out) : LinkedRecord(out[n])

RuanyifengCall == DetectCalled /\ includes(dIn.url, "ruanyifeng.com")

\* C17: for the Movable Type blog at ruanyifeng.com detectSiteType returns
\* type blog with platform 'movable-type', so that parseContent under the
\* returned classification takes the archive-enrichment strategy.
C17_MovableTypeDetected ==
    RuanyifengCall =>
        /\ dOut.status = "returned"
        /\ dOut.siteInfo.type = "blog"
        /\ dOut.siteInfo.platform = "movable-type"
        /\ IsMovableType(dOut.siteInfo)

PortfolioTestCall ==
    /\ DetectCalled
    /\ \E k \in portfolioKeywords :
          htmlLowerIncludes(dIn.html, k) \/ includes(toLowerCase(dIn.url), k)
    /\ \E w \in designWords : includes(toLowerCase(dIn.html.description), w)

\* C18: for a page whose markup or URL holds a portfolio keyword and whose
\* description meta names a designer or a portfolio, detectSiteType returns
\* type portfolio and the features list includes 'portfolio-keywords'.
C18_PortfolioKeywordsFeature ==
    PortfolioTestCall =>
        /\ dOut.status = "returned"
        /\ dOut.siteInfo.type = "portfolio"
        /\ \E n \in 1..Len(dOut.siteInfo.features) :
              dOut.siteInfo.features[n] = "portfolio-keywords"


----------------------------------------------------------------------------
(* Claims about the generate handler                                       *)

header(res, name) == IF name \in DOMAIN res.headers THEN res.headers[name] ELSE ""

\* a GET with refresh=1 and a well-formed url has been answered
RefreshAnswered ==
    /\ hPc = "done"
    /\ hReq.method = "GET"
    /\ hReq.refresh = "1"
    /\ parsesAsUrl(hReq.url)

\* C19: a GET with refresh=1 is never answered from cached state: the call
\* fetches the page again and, unless a stage of it fails, classifies the
\* page again, generates the feed again and marks the response X-Cache: MISS.
C19_RefreshBypassesCaches ==
    RefreshAnswered =>
        /\ "fetch" \in hRes.did
        /\ hRes.failure = ""
              => /\ {"classify", "generate"} \subseteq hRes.did
                 /\ header(hRes, "X-Cache") = "MISS"

\* a throw after the validation of the url has reached the catch block
FailureAnswered == hPc = "done" /\ hRes.failure # ""

ErrorFeedOf(res) == res.body.kind = "error" /\ res.body.url = hReq.url

\* C20: a failure after the validation of the url (the upstream fetch
\* rejected or not ok, an exception of the classification, an invalid
\* generated feed) is answered with status 500 and the error feed labelled
\* for the url, and the url is in the error cache; the handler returns.
C20_FailureBecomesErrorFeed ==
    FailureAnswered =>
        /\ hRes.status = 500
        /\ header(hRes, "Content-Type") = feedType["Content-Type"]
        /\ hReq.method = "GET" => ErrorFeedOf(hRes)
        /\ hReq.method = "HEAD" => hRes.body = NoContent
        /\ isInErrorCache(hCache, hReq.url)

\* the site answered a GET's fetch with a status that is not ok
C20_UpstreamStatusAnswered ==
    /\ FailureAnswered
    /\ hRes.failure = "status"
    /\ hReq.method = "GET"
    /\ hRes.status = 500
    /\ ErrorFeedOf(hRes)
    /\ isInErrorCache(hCache, hReq.url)

\* a GET or HEAD has been answered 200 with a feed document
FeedAnswered ==
    /\ hPc = "done"
    /\ hReq.method \in {"GET", "HEAD"}
    /\ hRes.status = 200
    /\ header(hRes, "Content-Type") = feedType["Content-Type"]

\* C21: every response of status 200 that carries a feed, to a GET or a
\* HEAD, has the headers X-Site-Type, X-Articles-Found and X-Cache, whether
\* the feed was generated by the call or came from a cache.
C21_FeedResponseHeaders ==
    FeedAnswered =>
        {"X-Site-Type", "X-Articles-Found", "X-Cache"}
            \subseteq DOMAIN hRes.headers

----------------------------------------------------------------------------
(* Claims about the CacheManager                                           *)

Returned(op) == cIn.op = op

\* C22: a cached feed is served for at most 30 minutes after it was cached:
\* a getCachedRSS more than 30 minutes after the last cacheRSS for the key
\* misses, whatever reads of the cache happened in between.
C22_FeedServedAtMostHalfAnHour ==
    (Returned("getCachedRSS") /\ cOut.hit) => cOut.since <= rssTtl

\* the spellings of one page
Spellings == CacheUrls \ {"https://a.com/blog?page=2&fbclid=y"}

\* the key of the rss store that generateCacheKey gives each url
RssKey == [u \in CacheUrls |-> generateCacheKey(u, "rss")]

SameKey(u, u2) == RssKey[u] = RssKey[u2]

SpellingsShareKey == \A u, u2 \in Spellings : SameKey(u, u2)

\* what a getCachedRSS(u2) would return
FeedAt(cache, u2) ==
    IF lruHas(cache.rss, RssKey[u2], rssTtl)
    THEN [hit |-> TRUE, content |-> cache.rss[RssKey[u2]].value]
    ELSE [hit |-> FALSE, content |-> NoContent]

\* the calls and events that end an entry of the rss store or replace it
EndsFeed(call, u2) ==
    \/ call.op \in {"none", "evicted", "clearAllCache"}
    \/ call.op \in {"clearCache", "cacheRSS"} /\ SameKey(call.url, u2)

ErrorKey == [u \in CacheUrls |-> generateCacheKey(u, "error")]

\* what isInErrorCache(u) would return
ErrorAt(cache, u) == lruHas(cache.error, ErrorKey[u], errorTtl)

\* the handler answers the request from the error store, without a fetch
AnsweredFromErrorCache(out, req) ==
    /\ out.pc = "done"
    /\ out.res.status = 200
    /\ out.res.did = {}
    /\ out.res.body =
          sent(req, generateErrorRSS(
                       "URL temporarily unavailable due to previous errors",
                       req.url))

\* while isInErrorCache(u) is true the handler answers every GET or HEAD
\* for u with the error feed and fetches nothing
ErrorCacheAnswers ==
    \A u \in CacheUrls, method \in {"GET", "HEAD"}, refresh \in Refreshes :
        isInErrorCache(hCache, u) =>
            AnsweredFromErrorCache(
                entry(hCache,
                      [method |-> method, url |-> u, refresh |-> refresh],
                      TRUE),
                [method |-> method, url |-> u, refresh |-> refresh])

\* addToErrorCache(u, e) makes isInErrorCache true for the key of u
ErrorEntryAdded ==
    cIn'.op = "addToErrorCache" =>
        \A u \in CacheUrls :
            ErrorKey[u] = ErrorKey[cIn'.url] => ErrorAt(hCache', u)

----------------------------------------------------------------------------
(* Further extraction claims                                               *)

\* the timestamp strings of the model: a known date, or an instant of the
\* model's clock
IsTimestamp(stamp) ==
    \/ \E t \in DOMAIN KnownDates : stamp = KnownDates[t]
    \/ \E now \in 0..MaxClock : stamp = nowToUTCString(now)

\* C25: every record's pubDate is a valid timestamp string; a node without
\* a date, or with a date text that is no date, gets the extraction time.
C25_PubDateValid ==
    ParseReturned => \A k \in 1..Len(pOut) : IsTimestamp(pOut[k].pubDate)

\* the fetch of the JSON resource failed, answered a status that is not
\* ok, or its payload was no JSON
JsonFailed(response) == response.kind \in {"error", "status", "malformed"}

\* C26: with a JSON resource URL in the markup, the embedded-data strategy
\* issues exactly one fetch and never repeats it; when the fetch fails,
\* answers a non-success status or a malformed payload, parseContent returns
\* what the generic strategy gives for the same document.
C26_OneFetchThenGeneric ==
    /\ [](IsFigmaCall(pInfo, pDoc) =>
             /\ net.issued <= 1
             /\ pPc = "awaitJson" => net.issued = 1
             /\ ParseReturned => net.issued = 1 /\ net.inFlight = "")
    /\ [][(pPc = "awaitJson" /\ net' # net) =>
             /\ pPc' = "done"
             /\ net'.issued = 1
             /\ JsonFailed(net'.settled) =>
                   pOut' = parseGenericContent(pInfo, pDoc.nodes, clock)]_vars

\* the JSON fetch failed and parseContent returned the records of the
\* generic strategy
C26_FailedFetchGenericRecords ==
    /\ ParseReturned
    /\ IsFigmaCall(pInfo, pDoc)
    /\ JsonFailed(net.settled)
    /\ net.issued = 1
    /\ pOut # <<>>
    /\ pOut = parseGenericContent(pInfo, pDoc.nodes, clock)

\* position k of the list is the n-th record flagged needsFullContent
IsNthFlagged(arts, k, n) ==
    /\ arts[k].needsFullContent
    /\ Cardinality({j \in 1..(k - 1) : arts[j].needsFullContent}) = n - 1

\* C27: one parseContent call on the archive path issues at most 5 secondary
\* fetches, one per record flagged as too short and taken in list order, and
\* the fetch for the next record starts only when the one before it has
\* settled.
C27_FiveFetchesInOrder ==
    /\ [](IsMovableType(pInfo) =>
             /\ net.issued <= MaxFullContent
             /\ pPc = "awaitArticle" =>
                   /\ net.issued = pWork.i
                   /\ IsNthFlagged(mtCandidates(pInfo, pDoc.nodes, 0),
                                   pWork.toFetch[pWork.i], pWork.i)
                   /\ net.inFlight = pWork.articles[pWork.toFetch[pWork.i]].link
             /\ pPc # "awaitArticle" => net.inFlight = "")
    /\ [][(IsMovableType(pInfo) /\ net'.issued # net.issued) =>
             /\ net'.issued = net.issued + 1
             /\ net.inFlight # "" =>
                   pPc = "awaitArticle" /\ net'.settled \in ArticleResponses
             /\ net.inFlight = "" => net.issued = 0]_vars

\* a call found more than 5 flagged records, fetched 5 and returned
C27_FifthFetchWasLast ==
    /\ ParseReturned
    /\ IsMovableType(pInfo)
    /\ net.issued = MaxFullContent
    /\ Cardinality({k \in 1..Len(pOut) : pOut[k].category = "Blog"})
          > MaxFullContent

\* C28: every network call made during extraction applies a timeout, so
\* that parseContent returns even when a server never responds.
C28_ParseContentReturns ==
    /\ [](net.inFlight # "" => net.timeout > 0)
    /\ (pPc \in {"awaitJson", "awaitArticle"}) ~> (pPc = "done")

\* the call returned what the generic strategy returned: the site type has
\* no strategy of its own, or the embedded-data strategy fell back to it
GenericReturned ==
    /\ ParseReturned
    /\ \/ pInfo.type \notin {"portfolio", "blog", "news", "ecommerce",
                            "repository"}
       \/ /\ pInfo.type = "portfolio"
          /\ looksFigma(pDoc.markup)
          /\ IsFigmaCall(pInfo, pDoc) => JsonFailed(net.settled)

\* C29: every record returned by the generic strategy has a title of at
\* least 6 characters.
C29_GenericTitlesSixCharacters ==
    GenericReturned => \A k \in 1..Len(pOut) : Len(pOut[k].title) >= 6

----------------------------------------------------------------------------
(* Claims about requests that share the handler's CacheManager             *)

\* what the handler answers to GET url without refresh, the manager being
\* as the requests before it left it
AnswerTo(url) ==
    entry(hCache, [method |-> "GET", url |-> url, refresh |-> ""], TRUE)

============================================================================
